---------------------------- MODULE Spec2Model ----------------------------
(***************************************************************************)
(* The aggregation core of the fitness-tracking backend                    *)
(* (src/bancked/analytics.py, and calculate_calories_burned of             *)
(* src/bancked/utils.py) as a state machine: a caller picks one of the     *)
(* functions and its arguments (Init), the function runs (one action per   *)
(* function) and either returns a value or raises.  The caller may hand    *)
(* the buckets of aggregate_by_period back to it (Reaggregate) and may     *)
(* call an aggregation function a second time on the same arguments        *)
(* (CallAgain).                                                            *)
(*                                                                         *)
(* Numbers.  A Python float is modelled as an exact decimal: an integer    *)
(* count of thousandths (70.125 is 70125).  round(x, n) is Python's        *)
(* round-half-to-even on that exact value.  The input pools hold values    *)
(* whose sums, differences and means are either no tie of the rounding or  *)
(* a tie that a binary float holds exactly (an odd multiple of 0.125 for   *)
(* 2 decimals, of 0.25 for 1 decimal), so that the float and the decimal   *)
(* round alike.                                                            *)
(*                                                                         *)
(* Python values.  A dictionary is a TLA+ function from field names to     *)
(* tagged values: [kind |-> "none"], [kind |-> "float", v |-> thousandths],*)
(* [kind |-> "int", v |-> n], [kind |-> "str", v |-> <<characters>>],      *)
(* [kind |-> "datetime", y, m, d, hh].  A string is a sequence of          *)
(* one-character strings, so formatting and parsing are real conversions.  *)
(***************************************************************************)
EXTENDS Integers, Sequences, FiniteSets, TLC

VARIABLES
    pc,       \* "call": the arguments are chosen; "return": the function ran;
              \* "refed": aggregate_by_period ran again on its own output
    fn,       \* the function being called
    args,     \* its arguments
    result,   \* its return value (meaningful when pc # "call" and ~raised)
    raised,   \* TRUE when the call ended in an exception
    caller,   \* what the caller keeps: the arguments as it built them and,
              \* when it calls a second time, the outcome of the first call
    db,       \* the document store: for each container, the set of documents
    blobs,    \* the names of the blobs in blob storage
    clock,    \* the number of seconds the clock has advanced
    ids,      \* the number of uuid4() values handed out
    requests, \* the request handlers in flight, each with its position
    last      \* the request answered last, with its answer

\* the variables of a call of the aggregation core
aggregation == <<pc, fn, args, result, raised, caller>>

\* the variables of the backend around it
backend == <<db, blobs, clock, ids, requests, last>>

vars == <<pc, fn, args, result, raised, caller, db, blobs, clock, ids, requests,
          last>>

-----------------------------------------------------------------------------
(* Bounds of the model *)

\* longest list handed to calculate_statistics
MaxValues == 4

\* longest list of records handed to aggregate_by_period
MaxData == 2

\* longest list of records handed to calculate_body_metrics_stats
MaxRecords == 3

\* longest list of records handed to calculate_workout_stats
MaxWorkouts == 2

\* longest list of records handed to calculate_nutrition_stats
MaxMeals == 2

-----------------------------------------------------------------------------
(* Python values *)

PyNone == [kind |-> "none"]

PyFloat(x) == [kind |-> "float", v |-> x]

PyInt(n) == [kind |-> "int", v |-> n]

PyStr(s) == [kind |-> "str", v |-> s]

\* dict.get(field): None when the key is missing
Get(r, field) == IF field \in DOMAIN r THEN r[field] ELSE PyNone

\* dict.get(field, default)
GetOr(r, field, default) == IF field \in DOMAIN r THEN r[field] ELSE default

IsNone(x) == x.kind = "none"

IsNumber(x) == x.kind \in {"float", "int"}

\* the number a float or an int holds, in thousandths
Milli(x) == IF x.kind = "int" THEN 1000 * x.v ELSE x.v

\* Python truthiness: None, "", 0 and 0.0 are false
Truthy(x) ==
    CASE x.kind = "none" -> FALSE
      [] x.kind = "str" -> x.v # <<>>
      [] x.kind \in {"float", "int"} -> x.v # 0
      [] OTHER -> TRUE

-----------------------------------------------------------------------------
(* Arithmetic on thousandths *)

RECURSIVE Sum(_)
Sum(s) == IF s = <<>> THEN 0 ELSE Head(s) + Sum(Tail(s))

RECURSIVE Min(_)
Min(s) ==
    IF Len(s) = 1 THEN s[1]
    ELSE LET m == Min(Tail(s)) IN IF Head(s) <= m THEN Head(s) ELSE m

RECURSIVE Max(_)
Max(s) ==
    IF Len(s) = 1 THEN s[1]
    ELSE LET m == Max(Tail(s)) IN IF Head(s) >= m THEN Head(s) ELSE m

\* num / den (den > 0) rounded to the nearest integer, ties to the even one
RoundHalfEven(num, den) ==
    LET q == num \div den
        r == num % den
    IN  IF 2 * r < den THEN q
        ELSE IF 2 * r > den THEN q + 1
        ELSE IF q % 2 = 0 THEN q ELSE q + 1

\* the same for a divisor of either sign (den # 0)
RoundDiv(num, den) ==
    IF den > 0 THEN RoundHalfEven(num, den) ELSE RoundHalfEven(-num, -den)

\* round(num / den, 2) in thousandths: a multiple of 10
Round2(num, den) == 10 * RoundDiv(num, 10 * den)

\* a rounding to 2 decimals where 1 decimal is meant
Round1KeepingTwo(num, den) == 10 * RoundDiv(num, 10 * den)

\* round(num / den, 1) in thousandths: a multiple of 100
Round1(num, den) == 100 * RoundDiv(num, 100 * den)

\* sorted(values): ascending insertion, stable
RECURSIVE Insert(_, _)
Insert(x, s) ==
    IF s = <<>> THEN <<x>>
    ELSE IF x < Head(s) THEN <<x>> \o s
    ELSE <<Head(s)>> \o Insert(x, Tail(s))

RECURSIVE SortedValues(_)
SortedValues(s) ==
    IF s = <<>> THEN <<>>
    ELSE Insert(s[Len(s)], SortedValues(SubSeq(s, 1, Len(s) - 1)))

\* statistics.mean(values), rounded to 2 decimals
MeanRound2(values) == Round2(Sum(values), Len(values))

\* a median that takes the upper middle element of an even-length list
MedianUpperMiddle(values) ==
    LET s == SortedValues(values)
    IN  Round2(s[Len(s) \div 2 + 1], 1)

\* statistics.median(values), rounded to 2 decimals
MedianRound2(values) ==
    LET s == SortedValues(values)
        n == Len(s)
    IN  IF n % 2 = 1 THEN Round2(s[(n + 1) \div 2], 1)
        ELSE Round2(s[n \div 2] + s[n \div 2 + 1], 2)

-----------------------------------------------------------------------------
(* calculate_statistics *)

calculate_statistics(values) ==
    IF values = <<>>
    THEN [min |-> 0, max |-> 0, average |-> 0, median |-> 0]
    ELSE [min |-> Round2(Min(values), 1),
          max |-> Round2(Max(values), 1),
          average |-> MeanRound2(values),
          median |-> MedianRound2(values)]

-----------------------------------------------------------------------------
(* calculate_change *)

\* a change computed as old - new
calculate_change_reversed(old_value, new_value) ==
    IF IsNone(old_value) \/ IsNone(new_value) \/ Milli(old_value) = 0
    THEN [absolute |-> 0, percentage |-> 0]
    ELSE LET absolute_change == Milli(old_value) - Milli(new_value)
         IN  [absolute |-> Round2(absolute_change, 1),
              percentage |-> 10 * RoundDiv(absolute_change * 10000, Milli(old_value))]

calculate_change(old_value, new_value) ==
    IF IsNone(old_value) \/ IsNone(new_value) \/ Milli(old_value) = 0
    THEN [absolute |-> 0, percentage |-> 0]
    ELSE LET absolute_change == Milli(new_value) - Milli(old_value)
         IN  [absolute |-> Round2(absolute_change, 1),
              \* (absolute / old) * 100 is absolute * 100000 / old thousandths;
              \* rounding it to a multiple of 10 divides both by 10
              percentage |-> 10 * RoundDiv(absolute_change * 10000, Milli(old_value))]

-----------------------------------------------------------------------------
(* Strings: sequences of one-character strings *)

DigitChars == <<"0", "1", "2", "3", "4", "5", "6", "7", "8", "9">>

IsDigit(c) == \E i \in 1..10 : DigitChars[i] = c

DigitOf(c) == (CHOOSE i \in 1..10 : DigitChars[i] = c) - 1

\* the code point of a character, which orders str comparison and sorted()
Ord(c) ==
    CASE c = "+" -> 43
      [] c = "-" -> 45
      [] IsDigit(c) -> 48 + DigitOf(c)
      [] c = ":" -> 58
      [] c = "T" -> 84
      [] c = "W" -> 87
      [] c = "Z" -> 90

\* a < b for two str values
RECURSIVE StrLess(_, _)
StrLess(a, b) ==
    IF b = <<>> THEN FALSE
    ELSE IF a = <<>> THEN TRUE
    ELSE IF Head(a) = Head(b) THEN StrLess(Tail(a), Tail(b))
    ELSE Ord(Head(a)) < Ord(Head(b))

\* n as a zero-padded decimal of `width` digits (%Y, %m, %d, %W of strftime)
RECURSIVE Pad(_, _)
Pad(n, width) ==
    IF width = 0 THEN <<>>
    ELSE Pad(n \div 10, width - 1) \o <<DigitChars[(n % 10) + 1]>>

AllDigits(s) == \A i \in 1..Len(s) : IsDigit(s[i])

\* int() of a string of digits
RECURSIVE ParseInt(_)
ParseInt(s) ==
    IF s = <<>> THEN 0
    ELSE 10 * ParseInt(SubSeq(s, 1, Len(s) - 1)) + DigitOf(s[Len(s)])

\* date_str.replace('Z', '+00:00')
RECURSIVE ReplaceZ(_)
ReplaceZ(s) ==
    IF s = <<>> THEN <<>>
    ELSE (IF Head(s) = "Z" THEN <<"+", "0", "0", ":", "0", "0">> ELSE <<Head(s)>>)
         \o ReplaceZ(Tail(s))

-----------------------------------------------------------------------------
(* The calendar of datetime *)

IsLeap(y) == y % 4 = 0 /\ (y % 100 # 0 \/ y % 400 = 0)

DaysInMonth(y, m) ==
    IF m = 2 THEN (IF IsLeap(y) THEN 29 ELSE 28)
    ELSE IF m \in {4, 6, 9, 11} THEN 30 ELSE 31

\* number of days before January 1st of year y (day 1 is 0001-01-01, a Monday)
DaysBeforeYear(y) ==
    365 * (y - 1) + (y - 1) \div 4 - (y - 1) \div 100 + (y - 1) \div 400

RECURSIVE DaysBeforeMonth(_, _)
DaysBeforeMonth(y, m) ==
    IF m = 1 THEN 0 ELSE DaysBeforeMonth(y, m - 1) + DaysInMonth(y, m - 1)

\* tm_yday + 1: the day of the year, January 1st is 1
DayOfYear(y, m, d) == DaysBeforeMonth(y, m) + d

\* date.toordinal()
Ordinal(y, m, d) == DaysBeforeYear(y) + DayOfYear(y, m, d)

\* tm_wday: 0 is Sunday, 1 is Monday, ..., 6 is Saturday
Weekday(y, m, d) == Ordinal(y, m, d) % 7

\* %U of strftime: the week of the year with Sunday as the first day of the
\* week; the days before the year's first Sunday are in week 0
WeekOfYearSunday(y, m, d) ==
    ((DayOfYear(y, m, d) - 1) + 7 - Weekday(y, m, d)) \div 7

\* %W of strftime: the week of the year with Monday as the first day of the
\* week; the days before the year's first Monday are in week 0
WeekOfYear(y, m, d) ==
    ((DayOfYear(y, m, d) - 1) + 7 - ((Weekday(y, m, d) + 6) % 7)) \div 7

PyDatetime(y, m, d, hh) == [kind |-> "datetime", y |-> y, m |-> m, d |-> d, hh |-> hh]

\* date.fromordinal(n), for n in year `near` or one of its two neighbours
FromOrdinal(n, near) ==
    LET y == CHOOSE yy \in {near - 1, near, near + 1} :
                 DaysBeforeYear(yy) < n /\ n <= DaysBeforeYear(yy + 1)
        doy == n - DaysBeforeYear(y)
        m == CHOOSE mm \in 1..12 :
                 DaysBeforeMonth(y, mm) < doy
                 /\ doy <= DaysBeforeMonth(y, mm) + DaysInMonth(y, mm)
    IN  PyDatetime(y, m, doy - DaysBeforeMonth(y, m), 0)

\* the Monday that starts ISO week 1 of year y, as an ordinal
IsoWeek1Monday(y) ==
    LET firstday == Ordinal(y, 1, 1)
        firstweekday == (firstday + 6) % 7
        week1monday == firstday - firstweekday
    IN  IF firstweekday > 3 THEN week1monday + 7 ELSE week1monday

\* whether year y has an ISO week 53
HasIsoWeek53(y) ==
    LET first_weekday == Ordinal(y, 1, 1) % 7
    IN  first_weekday = 4 \/ (first_weekday = 3 /\ IsLeap(y))

ParseError == [ok |-> FALSE]

Parsed(dt) == [ok |-> TRUE, value |-> dt]

\* "YYYY-MM-DD"
ParseDate(s) ==
    IF Len(s) = 10 /\ s[5] = "-" /\ s[8] = "-"
       /\ AllDigits(SubSeq(s, 1, 4)) /\ AllDigits(SubSeq(s, 6, 7))
       /\ AllDigits(SubSeq(s, 9, 10))
    THEN LET y == ParseInt(SubSeq(s, 1, 4))
             m == ParseInt(SubSeq(s, 6, 7))
             d == ParseInt(SubSeq(s, 9, 10))
         IN  IF y >= 1 /\ m \in 1..12 /\ d >= 1 /\ d <= DaysInMonth(y, m)
             THEN Parsed(PyDatetime(y, m, d, 0))
             ELSE ParseError
    ELSE ParseError

\* "YYYY-Www", which datetime.fromisoformat reads as the Monday of ISO week
\* ww from Python 3.11 on and rejects before
ParseIsoWeek(s) ==
    IF Len(s) = 8 /\ s[5] = "-" /\ s[6] = "W"
       /\ AllDigits(SubSeq(s, 1, 4)) /\ AllDigits(SubSeq(s, 7, 8))
    THEN LET y == ParseInt(SubSeq(s, 1, 4))
             w == ParseInt(SubSeq(s, 7, 8))
         IN  IF y >= 1 /\ w >= 1 /\ (w <= 52 \/ (w = 53 /\ HasIsoWeek53(y)))
             THEN Parsed(FromOrdinal(IsoWeek1Monday(y) + (w - 1) * 7, y))
             ELSE ParseError
    ELSE ParseError

\* "HH:MM:SS" with an optional "+HH:MM" or "-HH:MM" offset
ParseTime(s) ==
    IF Len(s) \in {8, 14} /\ s[3] = ":" /\ s[6] = ":"
       /\ AllDigits(SubSeq(s, 1, 2)) /\ AllDigits(SubSeq(s, 4, 5))
       /\ AllDigits(SubSeq(s, 7, 8))
       /\ ParseInt(SubSeq(s, 1, 2)) <= 23 /\ ParseInt(SubSeq(s, 4, 5)) <= 59
       /\ ParseInt(SubSeq(s, 7, 8)) <= 59
       /\ (Len(s) = 14 =>
             /\ s[9] \in {"+", "-"} /\ s[12] = ":"
             /\ AllDigits(SubSeq(s, 10, 11)) /\ AllDigits(SubSeq(s, 13, 14))
             /\ ParseInt(SubSeq(s, 10, 11)) <= 23
             /\ ParseInt(SubSeq(s, 13, 14)) <= 59)
    THEN [ok |-> TRUE, hh |-> ParseInt(SubSeq(s, 1, 2))]
    ELSE ParseError

\* datetime.fromisoformat(s) on the shapes the model's strings take: a date,
\* a date and a time of day, and the two period keys "YYYY-MM" and "YYYY-Www".
\* weekDates says whether the interpreter reads ISO week dates (3.11 on).
\* The wall-clock date of the string is kept: an offset does not shift it.
fromisoformat(s, weekDates) ==
    IF Len(s) = 10 THEN ParseDate(s)
    ELSE IF Len(s) \in {19, 25}
    THEN LET date == ParseDate(SubSeq(s, 1, 10))
             time == ParseTime(SubSeq(s, 12, Len(s)))
         IN  IF date.ok /\ time.ok
             THEN Parsed(PyDatetime(date.value.y, date.value.m, date.value.d, time.hh))
             ELSE ParseError
    ELSE IF Len(s) = 8 /\ weekDates THEN ParseIsoWeek(s)
    ELSE ParseError

\* date.strftime("%d-%m-%Y")
FormatDayFirst(dt) == Pad(dt.d, 2) \o <<"-">> \o Pad(dt.m, 2) \o <<"-">> \o Pad(dt.y, 4)

\* date.strftime("%Y-%m-%d")
FormatDay(dt) == Pad(dt.y, 4) \o <<"-">> \o Pad(dt.m, 2) \o <<"-">> \o Pad(dt.d, 2)

\* date.strftime("%Y-W%W")
FormatWeek(dt) == Pad(dt.y, 4) \o <<"-", "W">> \o Pad(WeekOfYear(dt.y, dt.m, dt.d), 2)

\* date.strftime("%Y-%m")
FormatMonth(dt) == Pad(dt.y, 4) \o <<"-">> \o Pad(dt.m, 2)

\* period keys whose fallback for an unrecognized period is the month format
PeriodKeyMonthFallback(dt, period) ==
    IF period = "day" THEN FormatDay(dt)
    ELSE IF period = "week" THEN FormatWeek(dt)
    ELSE FormatMonth(dt)

\* the period key of a date
PeriodKey(dt, period) ==
    IF period = "day" THEN FormatDay(dt)
    ELSE IF period = "week" THEN FormatWeek(dt)
    ELSE IF period = "month" THEN FormatMonth(dt)
    ELSE FormatDay(dt)

-----------------------------------------------------------------------------
(* aggregate_by_period *)

Raise == [raised |-> TRUE]

Return(value) == [raised |-> FALSE, value |-> value]

\* the parsed date of a record's date value: the str through fromisoformat,
\* anything else as it is (strftime then fails on what is not a datetime)
RecordDate(date_str, weekDates) ==
    IF date_str.kind = "str" THEN fromisoformat(ReplaceZ(date_str.v), weekDates)
    ELSE IF date_str.kind = "datetime" THEN Parsed(date_str)
    ELSE ParseError

\* a bucket that keeps only the value added last
AddToBucketOverwriting(aggregated, key, value) ==
    LET old == IF key \in DOMAIN aggregated
               THEN aggregated[key]
               ELSE [period |-> key, values |-> <<>>, count |-> 0]
        new == [period |-> old.period, values |-> <<value>>, count |-> old.count + 1]
    IN  [k \in DOMAIN aggregated \cup {key} |-> IF k = key THEN new ELSE aggregated[k]]

\* aggregated[key]["values"].append(value); aggregated[key]["count"] += 1
AddToBucket(aggregated, key, value) ==
    LET old == IF key \in DOMAIN aggregated
               THEN aggregated[key]
               ELSE [period |-> key, values |-> <<>>, count |-> 0]
        new == [period |-> old.period,
                values |-> Append(old.values, value),
                count |-> old.count + 1]
    IN  [k \in DOMAIN aggregated \cup {key} |-> IF k = key THEN new ELSE aggregated[k]]

\* a skip test that drops every falsy value, 0 included
SkippedFalsyValue(date_str, value) == ~Truthy(date_str) \/ ~Truthy(value)

\* if not date_str or value is None: continue
Skipped(date_str, value) == ~Truthy(date_str) \/ IsNone(value)

\* the loop over the records, from record i on
RECURSIVE Accumulate(_, _, _, _, _, _, _)
Accumulate(data, i, aggregated, date_field, value_field, period, weekDates) ==
    IF i > Len(data) THEN Return(aggregated)
    ELSE LET record == data[i]
             date_str == Get(record, date_field)
             value == Get(record, value_field)
         IN  IF Skipped(date_str, value)
             THEN Accumulate(data, i + 1, aggregated, date_field, value_field,
                             period, weekDates)
             ELSE LET date == RecordDate(date_str, weekDates)
                  IN  IF ~date.ok THEN Raise
                      ELSE Accumulate(data, i + 1,
                                      AddToBucket(aggregated,
                                                  PeriodKey(date.value, period), value),
                                      date_field, value_field, period, weekDates)

\* the keys in descending order
RECURSIVE SortedKeysDescending(_)
SortedKeysDescending(keys) ==
    IF keys = {} THEN <<>>
    ELSE LET first == CHOOSE k \in keys : \A o \in keys : ~StrLess(k, o)
         IN  <<first>> \o SortedKeysDescending(keys \ {first})

\* sorted(aggregated.keys())
RECURSIVE SortedKeys(_)
SortedKeys(keys) ==
    IF keys = {} THEN <<>>
    ELSE LET first == CHOOSE k \in keys : \A o \in keys : ~StrLess(o, k)
         IN  <<first>> \o SortedKeys(keys \ {first})

\* the values of a dictionary's records as thousandths
MilliSeq(values) == [i \in 1..Len(values) |-> Milli(values[i])]

DataPoint(data_point) ==
    [period |-> PyStr(data_point.period),
     average |-> PyFloat(MeanRound2(MilliSeq(data_point.values))),
     count |-> PyInt(data_point.count)]

aggregate_by_period(data, date_field, value_field, period, weekDates) ==
    IF data = <<>> THEN Return(<<>>)
    ELSE LET loop == Accumulate(data, 1, <<>>, date_field, value_field, period,
                                weekDates)
         IN  IF loop.raised THEN Raise
             ELSE LET aggregated == loop.value
                      keys == SortedKeys(DOMAIN aggregated)
                  IN  IF \E k \in DOMAIN aggregated :
                            \E i \in 1..Len(aggregated[k].values) :
                                ~IsNumber(aggregated[k].values[i])
                      THEN Raise
                      ELSE Return([i \in 1..Len(keys) |-> DataPoint(aggregated[keys[i]])])

-----------------------------------------------------------------------------
(* calculate_body_metrics_stats *)

\* key=lambda x: x.get("recordedAt", ""): the str the records are sorted by
\* a sort key that puts a record without recordedAt after every timestamp
SortKeyMissingLast(r) == GetOr(r, "recordedAt", PyStr(<<"9">>)).v

\* key=lambda x: x.get("recordedAt", "")
SortKey(r) == GetOr(r, "recordedAt", PyStr(<<>>)).v

\* sorted(records, key=SortKey, reverse=True): descending and stable (records
\* with equal keys keep their input order)
RECURSIVE InsertDescending(_, _)
InsertDescending(r, s) ==
    IF s = <<>> THEN <<r>>
    ELSE IF StrLess(SortKey(Head(s)), SortKey(r)) THEN <<r>> \o s
    ELSE <<Head(s)>> \o InsertDescending(r, Tail(s))

RECURSIVE SortedDescending(_)
SortedDescending(records) ==
    IF records = <<>> THEN <<>>
    ELSE InsertDescending(records[Len(records)],
                          SortedDescending(SubSeq(records, 1, Len(records) - 1)))

\* list.sort(): the list handed in is ordered in place
ArgumentAfterSort(records, sorted_records) == sorted_records

\* sorted(records, ...) returns a new list: the list handed in stays as it is
ArgumentAfterSorted(records, sorted_records) == records

\* [r.get(field) or 0 for r in records]: a record without the field counts
\* as 0
RECURSIVE ValuesOrZero(_, _)
ValuesOrZero(records, field) ==
    IF records = <<>> THEN <<>>
    ELSE <<IF Truthy(Get(Head(records), field))
           THEN Milli(Get(Head(records), field)) ELSE 0>>
         \o ValuesOrZero(Tail(records), field)

\* [r.get(field) for r in records if r.get(field)], as thousandths
RECURSIVE TruthyValues(_, _)
TruthyValues(records, field) ==
    IF records = <<>> THEN <<>>
    ELSE (IF Truthy(Get(Head(records), field))
          THEN <<Milli(Get(Head(records), field))>> ELSE <<>>)
         \o TruthyValues(Tail(records), field)

\* a weight change computed from one record on
WeightChangeFromOne(sorted_records) ==
    LET n == Len(sorted_records)
    IN  IF n >= 1 /\ Truthy(Get(sorted_records[1], "weight"))
           /\ Truthy(Get(sorted_records[n], "weight"))
        THEN PyFloat(calculate_change(Get(sorted_records[n], "weight"),
                                      Get(sorted_records[1], "weight")).absolute)
        ELSE PyNone

\* a weight change from the latest record to the oldest
WeightChangeSwapped(sorted_records) ==
    LET n == Len(sorted_records)
    IN  IF n >= 2 /\ Truthy(Get(sorted_records[1], "weight"))
           /\ Truthy(Get(sorted_records[n], "weight"))
        THEN PyFloat(calculate_change(Get(sorted_records[1], "weight"),
                                      Get(sorted_records[n], "weight")).absolute)
        ELSE PyNone

\* the weight change between the oldest and the latest record, or None
WeightChange(sorted_records) ==
    LET n == Len(sorted_records)
    IN  IF n >= 2 /\ Truthy(Get(sorted_records[1], "weight"))
           /\ Truthy(Get(sorted_records[n], "weight"))
        THEN PyFloat(calculate_change(Get(sorted_records[n], "weight"),
                                      Get(sorted_records[1], "weight")).absolute)
        ELSE PyNone

calculate_body_metrics_stats(records) ==
    IF records = <<>>
    THEN [latest_weight |-> PyNone, average_weight |-> PyNone,
          weight_change |-> PyNone, latest_bmi |-> PyNone,
          latest_body_fat |-> PyNone]
    ELSE LET sorted_records == SortedDescending(records)
             latest == sorted_records[1]
             weights == TruthyValues(records, "weight")
         IN  [latest_weight |-> Get(latest, "weight"),
              average_weight |-> IF weights # <<>>
                                 THEN PyFloat(Round1(Sum(weights), Len(weights)))
                                 ELSE PyNone,
              weight_change |-> WeightChange(sorted_records),
              latest_bmi |-> Get(latest, "bmi"),
              latest_body_fat |-> Get(latest, "bodyFatPercentage")]

-----------------------------------------------------------------------------
(* calculate_workout_stats and calculate_nutrition_stats *)

\* [r.get(field, 0) for r in records]
FieldOrZero(records, field) ==
    [i \in 1..Len(records) |-> GetOr(records[i], field, PyInt(0))]

\* sum() raises TypeError on a term that is no number (None, a str)
SumRaises(terms) == \E i \in 1..Len(terms) : ~IsNumber(terms[i])

\* sum() of numbers: an int when every term is an int, a float otherwise
SumOf(terms) ==
    IF \A i \in 1..Len(terms) : terms[i].kind = "int"
    THEN PyInt(Sum([i \in 1..Len(terms) |-> terms[i].v]))
    ELSE PyFloat(Sum(MilliSeq(terms)))

\* round(x, 1): an int is returned as it is
RoundPy1(x) == IF x.kind = "int" THEN x ELSE PyFloat(Round1(x.v, 1))

\* the totals of a non-empty list of workouts
WorkoutTotals(records) ==
    LET durations == FieldOrZero(records, "duration")
        calories == FieldOrZero(records, "caloriesBurned")
        distances == TruthyValues(records, "distance")
        total_distance == Sum(distances)
    IN  IF SumRaises(durations) \/ SumRaises(calories) THEN Raise
        ELSE Return([total_workouts |-> PyInt(Len(records)),
                     total_duration |-> SumOf(durations),
                     total_calories |-> SumOf(calories),
                     total_distance |-> IF distances # <<>> /\ total_distance # 0
                                        THEN PyFloat(Round2(total_distance, 1))
                                        ELSE PyNone])

\* workout statistics whose default reports a distance of 0.0
calculate_workout_stats_zero_distance(records) ==
    IF records = <<>>
    THEN Return([total_workouts |-> PyInt(0), total_duration |-> PyInt(0),
                 total_calories |-> PyInt(0), total_distance |-> PyFloat(0)])
    ELSE WorkoutTotals(records)

calculate_workout_stats(records) ==
    IF records = <<>>
    THEN Return([total_workouts |-> PyInt(0), total_duration |-> PyInt(0),
                 total_calories |-> PyInt(0), total_distance |-> PyNone])
    ELSE WorkoutTotals(records)

\* the totals of a non-empty list of nutrition records
NutritionTotals(records) ==
    LET calories == FieldOrZero(records, "calories")
        protein == FieldOrZero(records, "protein")
        carbs == FieldOrZero(records, "carbohydrates")
        fat == FieldOrZero(records, "fat")
    IN  IF SumRaises(calories) \/ SumRaises(protein) \/ SumRaises(carbs)
           \/ SumRaises(fat)
        THEN Raise
        ELSE Return([total_calories |-> SumOf(calories),
                     total_protein |-> RoundPy1(SumOf(protein)),
                     total_carbohydrates |-> RoundPy1(SumOf(carbs)),
                     total_fat |-> RoundPy1(SumOf(fat))])

calculate_nutrition_stats(records) ==
    IF records = <<>>
    THEN Return([total_calories |-> PyInt(0), total_protein |-> PyFloat(0),
                 total_carbohydrates |-> PyFloat(0), total_fat |-> PyFloat(0)])
    ELSE NutritionTotals(records)

-----------------------------------------------------------------------------
(* calculate_calories_burned (src/bancked/utils.py) *)

UpperChars ==
    <<"A", "B", "C", "D", "E", "F", "G", "H", "I", "J", "K", "L", "M",
      "N", "O", "P", "Q", "R", "S", "T", "U", "V", "W", "X", "Y", "Z">>

LowerChars ==
    <<"a", "b", "c", "d", "e", "f", "g", "h", "i", "j", "k", "l", "m",
      "n", "o", "p", "q", "r", "s", "t", "u", "v", "w", "x", "y", "z">>

\* str.lower() of one character
LowerChar(c) ==
    IF \E i \in 1..26 : UpperChars[i] = c
    THEN LowerChars[CHOOSE i \in 1..26 : UpperChars[i] = c]
    ELSE c

\* workout_type.lower().replace(' ', '_')
LowerUnderscored(s) ==
    [i \in 1..Len(s) |-> IF LowerChar(s[i]) = " " THEN "_" ELSE LowerChar(s[i])]

\* the MET of each workout type, in tenths
MET_VALUES ==
    {<<<<"r", "u", "n", "n", "i", "n", "g">>, 98>>,
     <<<<"j", "o", "g", "g", "i", "n", "g">>, 70>>,
     <<<<"w", "a", "l", "k", "i", "n", "g">>, 35>>,
     <<<<"c", "y", "c", "l", "i", "n", "g">>, 75>>,
     <<<<"s", "w", "i", "m", "m", "i", "n", "g">>, 80>>,
     <<<<"s", "t", "r", "e", "n", "g", "t", "h", "_", "t", "r",
        "a", "i", "n", "i", "n", "g">>, 60>>,
     <<<<"w", "e", "i", "g", "h", "t", "l", "i", "f", "t", "i",
        "n", "g">>, 60>>,
     <<<<"y", "o", "g", "a">>, 30>>,
     <<<<"p", "i", "l", "a", "t", "e", "s">>, 35>>,
     <<<<"h", "i", "i", "t">>, 100>>,
     <<<<"d", "a", "n", "c", "i", "n", "g">>, 50>>,
     <<<<"b", "a", "s", "k", "e", "t", "b", "a", "l", "l">>, 65>>,
     <<<<"s", "o", "c", "c", "e", "r">>, 70>>,
     <<<<"t", "e", "n", "n", "i", "s">>, 73>>,
     <<<<"h", "i", "k", "i", "n", "g">>, 60>>,
     <<<<"e", "l", "l", "i", "p", "t", "i", "c", "a", "l">>, 70>>,
     <<<<"r", "o", "w", "i", "n", "g">>, 85>>,
     <<<<"c", "l", "i", "m", "b", "i", "n", "g">>, 80>>}

\* MET_VALUES.get(key, 5.0), in tenths
MetOf(key) ==
    IF \E e \in MET_VALUES : e[1] = key
    THEN (CHOOSE e \in MET_VALUES : e[1] = key)[2]
    ELSE 50

\* an estimate that cuts the fraction off: int(calories)
calculate_calories_burned_truncated(workout_type, duration_minutes, weight_kg) ==
    PyInt((MetOf(LowerUnderscored(workout_type)) * Milli(weight_kg) * duration_minutes)
          \div 600000)

\* int(round(met * weight_kg * (duration_minutes / 60))): the product is
\* met (tenths) * weight (thousandths) * minutes over 10 * 1000 * 60
calculate_calories_burned(workout_type, duration_minutes, weight_kg) ==
    PyInt(RoundDiv(MetOf(LowerUnderscored(workout_type)) * Milli(weight_kg)
                   * duration_minutes, 600000))

-----------------------------------------------------------------------------
(* get_date_range *)

\* a datetime with its time of day to the microsecond
Instant(y, m, d, hh, mi, ss, us) ==
    [y |-> y, m |-> m, d |-> d, hh |-> hh, mi |-> mi, ss |-> ss, us |-> us]

\* dt - timedelta(days=days): the time of day stays, the date moves back
MinusDays(dt, days) ==
    LET date == FromOrdinal(Ordinal(dt.y, dt.m, dt.d) - days, dt.y)
    IN  [dt EXCEPT !.y = date.y, !.m = date.m, !.d = date.d]

\* datetime.isoformat() of a naive datetime: YYYY-MM-DDTHH:MM:SS, followed by
\* .ffffff when the microseconds are not 0
isoformat(dt) ==
    Pad(dt.y, 4) \o <<"-">> \o Pad(dt.m, 2) \o <<"-">> \o Pad(dt.d, 2) \o <<"T">>
    \o Pad(dt.hh, 2) \o <<":">> \o Pad(dt.mi, 2) \o <<":">> \o Pad(dt.ss, 2)
    \o (IF dt.us = 0 THEN <<>> ELSE <<".">> \o Pad(dt.us, 6))

\* a range that starts `days` days after its end
get_date_range_forward(days, utcnow) ==
    <<PyStr(isoformat(MinusDays(utcnow, -days)) \o <<"Z">>),
      PyStr(isoformat(utcnow) \o <<"Z">>)>>

\* utcnow is what datetime.utcnow() returns during the call
get_date_range(days, utcnow) ==
    LET end_date == utcnow
        start_date == MinusDays(end_date, days)
    IN  <<PyStr(isoformat(start_date) \o <<"Z">>),
          PyStr(isoformat(end_date) \o <<"Z">>)>>

-----------------------------------------------------------------------------
(* The inputs the caller draws from *)

\* every list of at most n elements of S
SeqsUpTo(S, n) == UNION {[1..k -> S] : k \in 0..n}

\* floats handed to calculate_statistics, in thousandths
StatValues == {-2500, 625, 1250, 2500, 5000, 10000}

\* the two arguments of calculate_change
ChangeValues ==
    {PyNone, PyFloat(0), PyInt(0), PyFloat(100000), PyFloat(150000),
     PyFloat(50000), PyFloat(3000), PyFloat(125), PyFloat(-2500)}

\* ISO-8601 strings as the callers store them
Iso(y, m, d) == Pad(y, 4) \o <<"-">> \o Pad(m, 2) \o <<"-">> \o Pad(d, 2)

IsoTime(y, m, d, hh, suffix) ==
    Iso(y, m, d) \o <<"T">> \o Pad(hh, 2) \o <<":", "3", "0", ":", "0", "0">>
    \o suffix

UtcOffset == <<"+", "0", "0", ":", "0", "0">>

\* records handed to aggregate_by_period: date field "recordedAt", value
\* field "weight"
PeriodRecords ==
    {[recordedAt |-> PyStr(IsoTime(2023, 12, 31, 23, UtcOffset)), weight |-> PyFloat(-500)],
     [recordedAt |-> PyDatetime(2024, 1, 6, 9), weight |-> PyFloat(71000)],
     [recordedAt |-> PyStr(IsoTime(2024, 1, 7, 8, <<"Z">>)), weight |-> PyFloat(70125)],
     [recordedAt |-> PyStr(Iso(2024, 1, 7)), weight |-> PyFloat(72250)],
     [recordedAt |-> PyStr(Iso(2024, 1, 8)), weight |-> PyFloat(0)],
     [recordedAt |-> PyStr(IsoTime(2025, 1, 1, 0, <<>>)), weight |-> PyFloat(250)],
     [recordedAt |-> PyStr(Iso(2025, 1, 6)), weight |-> PyInt(3)],
     [weight |-> PyFloat(1000)],
     [recordedAt |-> PyNone, weight |-> PyFloat(1000)],
     [recordedAt |-> PyStr(<<>>), weight |-> PyFloat(1000)],
     [recordedAt |-> PyStr(Iso(2024, 1, 8))],
     [recordedAt |-> PyDatetime(2024, 1, 6, 9), weight |-> PyNone]}

Periods == {"day", "week", "month", "year"}

\* records handed to calculate_body_metrics_stats
BodyRecords ==
    {[recordedAt |-> PyStr(IsoTime(2024, 1, 6, 8, <<>>)), weight |-> PyFloat(70000),
      bmi |-> PyFloat(22900), bodyFatPercentage |-> PyFloat(18500)],
     [recordedAt |-> PyStr(IsoTime(2024, 1, 7, 8, <<>>)), weight |-> PyFloat(70125),
      bmi |-> PyNone, bodyFatPercentage |-> PyNone],
     [recordedAt |-> PyStr(IsoTime(2024, 1, 7, 8, <<>>)), weight |-> PyNone,
      bmi |-> PyFloat(23100), bodyFatPercentage |-> PyFloat(0)],
     [recordedAt |-> PyStr(IsoTime(2024, 1, 8, 8, <<>>)), weight |-> PyFloat(70000),
      bmi |-> PyFloat(22900), bodyFatPercentage |-> PyNone],
     [recordedAt |-> PyStr(IsoTime(2024, 1, 5, 8, <<>>)),
      bodyFatPercentage |-> PyFloat(19250)],
     [weight |-> PyFloat(68500), bmi |-> PyFloat(22400)]}

\* records handed to calculate_workout_stats
WorkoutRecords ==
    {[duration |-> PyInt(1800), caloriesBurned |-> PyInt(200)],
     [duration |-> PyInt(600), distance |-> PyFloat(5125)],
     [duration |-> PyInt(1200), caloriesBurned |-> PyInt(0), distance |-> PyNone],
     [duration |-> PyInt(900), caloriesBurned |-> PyNone, distance |-> PyFloat(2500)]}

\* records handed to calculate_nutrition_stats
NutritionRecords ==
    {[calories |-> PyInt(500), protein |-> PyFloat(30250), carbohydrates |-> PyFloat(60000),
      fat |-> PyFloat(10250)],
     [calories |-> PyInt(250), protein |-> PyFloat(12500)],
     [calories |-> PyInt(0)],
     [calories |-> PyInt(100), protein |-> PyNone, carbohydrates |-> PyNone,
      fat |-> PyNone]}

\* workout types handed to calculate_calories_burned: table names in several
\* spellings and names that are not in the table
WorkoutTypes ==
    {<<"r", "u", "n", "n", "i", "n", "g">>,
     <<"R", "u", "n", "n", "i", "n", "g">>,
     <<"S", "t", "r", "e", "n", "g", "t", "h", " ", "T", "r", "a", "i", "n", "i", "n", "g">>,
     <<"w", "a", "l", "k", "i", "n", "g">>,
     <<"H", "I", "I", "T">>,
     <<"t", "e", "n", "n", "i", "s">>,
     <<"u", "n", "k", "n", "o", "w", "n", "_", "s", "p", "o", "r", "t">>,
     <<>>}

\* durations in minutes
Minutes == {0, 1, 20, 30, 45, 60, 90}

\* weights in kg: the default 70 of the caller (an int) and floats
Weights == {PyInt(70), PyFloat(70000), PyFloat(55500), PyFloat(82250)}

\* the days a caller looks back
DayCounts == {0, 1, 7, 30, 365}

\* what the clock shows when get_date_range reads it
Instants ==
    {Instant(2024, 3, 15, 8, 30, 0, 250000),
     Instant(2024, 3, 1, 0, 0, 0, 0),
     Instant(2024, 12, 31, 23, 59, 59, 999999),
     Instant(2025, 1, 1, 0, 0, 0, 1),
     Instant(2023, 1, 7, 12, 5, 9, 0)}

-----------------------------------------------------------------------------
(* The state machine *)

\* the backend while the aggregation core is called on its own: an empty store
\* and no request
NoBackend ==
    /\ db = <<>>
    /\ blobs = {}
    /\ clock = 0
    /\ ids = 0
    /\ requests = <<>>
    /\ last = <<>>

Init ==
    /\ NoBackend
    /\ pc = "call"
    /\ result = <<>>
    /\ raised = FALSE
    /\ \/ fn = "calculate_statistics"
          /\ args \in [values : SeqsUpTo(StatValues, MaxValues)]
       \/ fn = "calculate_change"
          /\ args \in [old_value : ChangeValues, new_value : ChangeValues]
       \/ fn = "aggregate_by_period"
          /\ args \in [data : SeqsUpTo(PeriodRecords, MaxData),
                       date_field : {"recordedAt"}, value_field : {"weight"},
                       period : Periods]
       \/ fn = "calculate_body_metrics_stats"
          /\ args \in [records : SeqsUpTo(BodyRecords, MaxRecords)]
       \/ fn = "calculate_workout_stats"
          /\ args \in [records : SeqsUpTo(WorkoutRecords, MaxWorkouts)]
       \/ fn = "calculate_nutrition_stats"
          /\ args \in [records : SeqsUpTo(NutritionRecords, MaxMeals)]
       \/ fn = "calculate_calories_burned"
          /\ args \in [workout_type : WorkoutTypes, duration_minutes : Minutes,
                       weight_kg : Weights]
       \/ fn = "get_date_range"
          /\ args \in [days : DayCounts, utcnow : Instants]
    /\ caller = [inputs |-> args, called |-> FALSE, result |-> <<>>, raised |-> FALSE]

\* a call that ends with `out`, a Return or a Raise
Finish(out) ==
    /\ pc' = "return"
    /\ raised' = out.raised
    /\ result' = IF out.raised THEN <<>> ELSE out.value
    /\ UNCHANGED <<fn, args, caller>>
    /\ UNCHANGED backend

Call_calculate_statistics ==
    /\ pc = "call" /\ fn = "calculate_statistics"
    /\ Finish(Return(calculate_statistics(args.values)))

Call_calculate_change ==
    /\ pc = "call" /\ fn = "calculate_change"
    /\ Finish(Return(calculate_change(args.old_value, args.new_value)))

Call_aggregate_by_period ==
    /\ pc = "call" /\ fn = "aggregate_by_period"
    /\ \E weekDates \in BOOLEAN :
          Finish(aggregate_by_period(args.data, args.date_field, args.value_field,
                                     args.period, weekDates))

\* the caller hands the buckets it got back to aggregate_by_period, with the
\* period key as the date and the average as the value
Reaggregate ==
    /\ pc = "return" /\ fn = "aggregate_by_period" /\ ~raised
    /\ \E weekDates \in BOOLEAN :
          LET out == aggregate_by_period(result, "period", "average", args.period,
                                         weekDates)
              again == [data |-> result, date_field |-> "period",
                        value_field |-> "average", period |-> args.period]
          IN  /\ pc' = "refed"
              /\ args' = again
              /\ caller' = [caller EXCEPT !.inputs = again]
              /\ raised' = out.raised
              /\ result' = IF out.raised THEN <<>> ELSE out.value
              /\ UNCHANGED fn
              /\ UNCHANGED backend

\* the list `records` is handed to sorted(), which leaves it as it is
Call_calculate_body_metrics_stats ==
    /\ pc = "call" /\ fn = "calculate_body_metrics_stats"
    /\ pc' = "return"
    /\ raised' = FALSE
    /\ result' = calculate_body_metrics_stats(args.records)
    /\ args' = [records |-> ArgumentAfterSorted(args.records,
                                                SortedDescending(args.records))]
    /\ UNCHANGED <<fn, caller>>
    /\ UNCHANGED backend

Call_calculate_workout_stats ==
    /\ pc = "call" /\ fn = "calculate_workout_stats"
    /\ Finish(calculate_workout_stats(args.records))

Call_calculate_nutrition_stats ==
    /\ pc = "call" /\ fn = "calculate_nutrition_stats"
    /\ Finish(calculate_nutrition_stats(args.records))

Call_calculate_calories_burned ==
    /\ pc = "call" /\ fn = "calculate_calories_burned"
    /\ Finish(Return(calculate_calories_burned(args.workout_type,
                                               args.duration_minutes,
                                               args.weight_kg)))

\* the functions the caller may call a second time on the arguments it holds
AggregationFunctions ==
    {"calculate_statistics", "calculate_change", "aggregate_by_period",
     "calculate_body_metrics_stats", "calculate_workout_stats",
     "calculate_nutrition_stats"}

\* the caller notes the outcome and calls the same function again on the
\* same arguments
CallAgain ==
    /\ pc = "return" /\ fn \in AggregationFunctions /\ ~caller.called
    /\ pc' = "call"
    /\ caller' = [caller EXCEPT !.called = TRUE, !.result = result,
                                !.raised = raised]
    /\ result' = <<>>
    /\ raised' = FALSE
    /\ UNCHANGED <<fn, args>>
    /\ UNCHANGED backend

\* args.utcnow is the reading of the clock the call gets
Call_get_date_range ==
    /\ pc = "call" /\ fn = "get_date_range"
    /\ Finish(Return(get_date_range(args.days, args.utcnow)))

Next ==
    \/ Call_calculate_statistics
    \/ Call_calculate_change
    \/ Call_aggregate_by_period
    \/ Reaggregate
    \/ Call_calculate_body_metrics_stats
    \/ Call_calculate_workout_stats
    \/ Call_calculate_nutrition_stats
    \/ Call_calculate_calories_burned
    \/ Call_get_date_range
    \/ CallAgain

Spec == Init /\ [][Next]_vars

-----------------------------------------------------------------------------
(* aggregate_by_period on dates that are no ISO-8601 timestamps *)

\* records whose date is a string datetime.fromisoformat rejects: a month 13,
\* a 30th of February, a date written with slashes, a word
MalformedRecords ==
    {[recordedAt |-> PyStr(<<"2", "0", "2", "4", "-", "1", "3", "-", "4", "5">>),
      weight |-> PyFloat(70000)],
     [recordedAt |-> PyStr(<<"2", "0", "2", "4", "-", "0", "2", "-", "3", "0">>),
      weight |-> PyFloat(70125)],
     [recordedAt |-> PyStr(<<"0", "7", "/", "0", "1", "/", "2", "0", "2", "4">>),
      weight |-> PyFloat(71000)],
     [recordedAt |-> PyStr(<<"n", "o", "t", "-", "a", "-", "d", "a", "t", "e">>),
      weight |-> PyInt(70)]}

\* the caller picks the records among the well-formed and the malformed ones
MalformedInit ==
    /\ NoBackend
    /\ pc = "call"
    /\ result = <<>>
    /\ raised = FALSE
    /\ fn = "aggregate_by_period"
    /\ args \in [data : SeqsUpTo(PeriodRecords \cup MalformedRecords, MaxData),
                 date_field : {"recordedAt"}, value_field : {"weight"},
                 period : Periods]
    /\ caller = [inputs |-> args, called |-> FALSE, result |-> <<>>, raised |-> FALSE]

MalformedNext == Call_aggregate_by_period

SpecMalformed == MalformedInit /\ [][MalformedNext]_vars

-----------------------------------------------------------------------------
(* The document store (src/bancked/database.py)                            *)
(*                                                                         *)
(* A store maps each container to the set of its documents; a document is  *)
(* a dictionary.  The containers of the records are partitioned by         *)
(* /userId: a document is addressed by its id within the partition of its  *)
(* userId.  Every function takes the store it works on.  The four record   *)
(* kinds have the same functions (get_workout_by_id, get_body_metric_by_id,*)
(* ...), which differ in the container only: they are modelled once, with  *)
(* the container as a parameter.                                           *)

RecordContainers == {"body_metrics", "workouts", "nutrition", "progress_photos"}

\* the field the queries of a container filter and order by
DateField(container) == IF container = "workouts" THEN "startTime" ELSE "recordedAt"

\* the documents read_item(item=id, partition_key=user_id) addresses
Addressed(store, container, id, user_id) ==
    {d \in store[container] : d.id = PyStr(id) /\ d.userId = PyStr(user_id)}

\* read_item by id in every partition
get_by_id_any_partition(store, container, id, user_id) ==
    IF \E d \in store[container] : d.id = PyStr(id)
    THEN CHOOSE d \in store[container] : d.id = PyStr(id)
    ELSE PyNone

\* get_workout_by_id and its like: the document, None when read_item raises
\* CosmosResourceNotFoundError
get_by_id(store, container, id, user_id) ==
    IF Addressed(store, container, id, user_id) = {} THEN PyNone
    ELSE CHOOSE d \in Addressed(store, container, id, user_id) : TRUE

\* create_item(body=doc)
create(store, container, doc) ==
    [store EXCEPT ![container] = @ \cup {doc}]

\* existing.update(updates)
DictUpdate(existing, updates) ==
    [f \in DOMAIN existing \cup DOMAIN updates |->
        IF f \in DOMAIN updates THEN updates[f] ELSE existing[f]]

\* replace_item(item=id, body=body): the outcome and the store after it;
\* CosmosResourceNotFoundError when the partition of body holds no such id
replace_item(store, container, id, body) ==
    LET old == {d \in store[container] : d.id = PyStr(id) /\ d.userId = body.userId}
    IN  IF old = {} THEN [raised |-> TRUE, store |-> store]
        ELSE [raised |-> FALSE, value |-> body,
              store |-> [store EXCEPT ![container] = (@ \ old) \cup {body}]]

\* update_workout and its like, run without interruption: ValueError when
\* the document is not found
update(store, container, id, user_id, updates) ==
    LET existing == get_by_id(store, container, id, user_id)
    IN  IF existing = PyNone THEN [raised |-> TRUE, store |-> store]
        ELSE replace_item(store, container, id, DictUpdate(existing, updates))

\* delete_workout and its like: True, or False when delete_item raises
\* CosmosResourceNotFoundError
delete(store, container, id, user_id) ==
    LET old == Addressed(store, container, id, user_id)
    IN  IF old = {} THEN [value |-> FALSE, store |-> store]
        ELSE [value |-> TRUE, store |-> [store EXCEPT ![container] = @ \ old]]

\* the field get_user_workouts and get_user_progress_photos can filter by
TypeField(container) == IF container = "workouts" THEN "workoutType" ELSE "photoType"

\* WHERE c.userId = @userId [AND c.workoutType = @workoutType]
\* [AND c.<date> >= @startDate] [AND c.<date> <= @endDate]: a filter is added
\* when its argument is truthy; strings compare character by character
Matching(store, container, user_id, type, start_date, end_date) ==
    {d \in store[container] :
        /\ d.userId = PyStr(user_id)
        /\ Truthy(type) => d[TypeField(container)] = type
        /\ Truthy(start_date) => ~StrLess(d[DateField(container)].v, start_date.v)
        /\ Truthy(end_date) => ~StrLess(end_date.v, d[DateField(container)].v)}

\* ORDER BY c.<date> DESC: every order of the documents the clause allows
\* (documents with the same date come in no defined order)
OrderedDescending(docs, field) ==
    {order \in [1..Cardinality(docs) -> docs] :
        /\ \A i, j \in DOMAIN order : order[i] = order[j] => i = j
        /\ \A i, j \in DOMAIN order : i < j => ~StrLess(order[i][field].v, order[j][field].v)}

\* OFFSET offset LIMIT page_size
OffsetLimit(order, offset, page_size) ==
    SubSeq(order, offset + 1,
           IF offset + page_size < Len(order) THEN offset + page_size ELSE Len(order))

\* get_user_workouts and its like: every (items, total) the two queries may
\* answer
get_user_records(store, container, user_id, page, page_size, type, start_date, end_date) ==
    LET docs == Matching(store, container, user_id, type, start_date, end_date)
    IN  {[items |-> OffsetLimit(order, (page - 1) * page_size, page_size),
          total |-> Cardinality(docs)] :
            order \in OrderedDescending(docs, DateField(container))}

\* get_user_by_id: the user document, None when there is none
get_user_by_id(store, user_id) ==
    IF \E d \in store["users"] : d.id = PyStr(user_id)
    THEN CHOOSE d \in store["users"] : d.id = PyStr(user_id)
    ELSE PyNone

-----------------------------------------------------------------------------
(* The request handlers of the records (src/bancked/routes_workouts.py,    *)
(* routes_body_metrics.py, routes_nutrition.py, routes_dashboard.py)       *)
(*                                                                         *)
(* A handler is a function of the store, the reading of the clock, the     *)
(* authenticated user and the request; it gives the answer (status and     *)
(* body) and the store it leaves.  A request body holds a Python value per *)
(* attribute, None for an attribute the client left out; a datetime        *)
(* attribute holds an Instant.  The handlers for reading, listing and      *)
(* deleting are the same for the three kinds of records up to the          *)
(* container and are modelled once.                                        *)

\* the stats handlers ask the store for one page of this many records.  The
\* handlers ask for 1000; the model scales the page down so that a user can
\* hold more records than one page
StatsPageSize == 2

\* calculate_bmi (src/bancked/utils.py); heights are whole centimetres
calculate_bmi(weight_kg, height_cm) ==
    IF Milli(weight_kg) <= 0 \/ Milli(height_cm) <= 0 THEN PyFloat(0)
    ELSE LET cm == Milli(height_cm) \div 1000
         IN  PyFloat(Round1(Milli(weight_kg) * 10000, cm * cm))

\* str(uuid.uuid4()): the n-th value handed out
uuid4(n) == <<"i", "d">> \o Pad(n, 2)

\* an answer with its status, its body and the store the handler leaves
Answer(status, body, store) == [status |-> status, body |-> body, store |-> store]

\* x.isoformat() if isinstance(x, datetime) else x
IsoIfDatetime(x) == IF "y" \in DOMAIN x THEN PyStr(isoformat(x)) ELSE x

\* user.get("profile", {}).get(field, default) if user else default
ProfileField(user, field, default) ==
    IF user = PyNone THEN default
    ELSE GetOr(GetOr(user, "profile", <<>>), field, default)

\* POST /workouts
create_workout(store, now, id, user_id, workout) ==
    LET weight_kg == ProfileField(get_user_by_id(store, user_id), "weight", PyInt(70))
        calories_burned ==
            IF Truthy(workout.calories_burned) THEN workout.calories_burned
            ELSE calculate_calories_burned(workout.workout_type.v,
                                           workout.duration.v \div 60, weight_kg)
        workout_doc ==
            [id |-> PyStr(id), userId |-> PyStr(user_id),
             workoutType |-> workout.workout_type,
             startTime |-> IsoIfDatetime(workout.start_time),
             endTime |-> IsoIfDatetime(workout.end_time),
             duration |-> workout.duration, distance |-> workout.distance,
             caloriesBurned |-> calories_burned, intensity |-> workout.intensity,
             notes |-> workout.notes, createdAt |-> PyStr(isoformat(now)),
             updatedAt |-> PyStr(isoformat(now))]
    IN  Answer(201, workout_doc, create(store, "workouts", workout_doc))

\* POST /body-metrics
create_body_metric(store, now, id, user_id, metric) ==
    LET height_cm == ProfileField(get_user_by_id(store, user_id), "height", PyNone)
        bmi == IF Truthy(metric.weight) /\ Truthy(height_cm)
               THEN calculate_bmi(metric.weight, height_cm) ELSE PyNone
        metric_doc ==
            [id |-> PyStr(id), userId |-> PyStr(user_id), weight |-> metric.weight,
             bodyFatPercentage |-> metric.body_fat_percentage,
             muscleMass |-> metric.muscle_mass, bmi |-> bmi, notes |-> metric.notes,
             recordedAt |-> IsoIfDatetime(metric.recorded_at),
             createdAt |-> PyStr(isoformat(now)), updatedAt |-> PyStr(isoformat(now))]
    IN  Answer(201, metric_doc, create(store, "body_metrics", metric_doc))

\* POST /nutrition
create_nutrition(store, now, id, user_id, nutrition) ==
    LET nutrition_doc ==
            [id |-> PyStr(id), userId |-> PyStr(user_id),
             mealType |-> nutrition.meal_type, foodName |-> nutrition.food_name,
             calories |-> nutrition.calories, protein |-> nutrition.protein,
             carbohydrates |-> nutrition.carbohydrates, fat |-> nutrition.fat,
             portion |-> nutrition.portion, notes |-> nutrition.notes,
             recordedAt |-> IsoIfDatetime(nutrition.recorded_at),
             createdAt |-> PyStr(isoformat(now)), updatedAt |-> PyStr(isoformat(now))]
    IN  Answer(201, nutrition_doc, create(store, "nutrition", nutrition_doc))

\* GET /workouts/{id}, /body-metrics/{id}, /nutrition/{id}
get_record(store, container, id, user_id) ==
    LET record == get_by_id(store, container, id, user_id)
    IN  IF record = PyNone THEN Answer(404, PyNone, store)
        ELSE Answer(200, record, store)

\* DELETE /workouts/{id}, /body-metrics/{id}, /nutrition/{id}
delete_record(store, container, id, user_id) ==
    LET success == delete(store, container, id, user_id)
    IN  IF ~success.value THEN Answer(404, PyNone, store)
        ELSE Answer(204, PyNone, success.store)

\* the document key of each attribute an update request can supply
WorkoutUpdateFields ==
    [workoutType |-> "workout_type", startTime |-> "start_time",
     endTime |-> "end_time", duration |-> "duration", distance |-> "distance",
     caloriesBurned |-> "calories_burned", intensity |-> "intensity",
     notes |-> "notes"]

BodyMetricUpdateFields ==
    [weight |-> "weight", bodyFatPercentage |-> "body_fat_percentage",
     muscleMass |-> "muscle_mass", notes |-> "notes", recordedAt |-> "recorded_at"]

NutritionUpdateFields ==
    [mealType |-> "meal_type", foodName |-> "food_name", calories |-> "calories",
     protein |-> "protein", carbohydrates |-> "carbohydrates", fat |-> "fat",
     portion |-> "portion", notes |-> "notes", recordedAt |-> "recorded_at"]

UpdateFields(container) ==
    CASE container = "workouts" -> WorkoutUpdateFields
      [] container = "body_metrics" -> BodyMetricUpdateFields
      [] container = "nutrition" -> NutritionUpdateFields

\* updates that carry every attribute of the request, None included
SuppliedOrNot(fields, record_update) == DOMAIN fields

\* the keys the handler writes: if record_update.x is not None: updates[key] = ...
Supplied(fields, record_update) ==
    {key \in DOMAIN fields : record_update[fields[key]] # PyNone}

\* the updates dictionary of a PUT handler
Updates(store, container, user_id, now, record_update) ==
    LET fields == UpdateFields(container)
        keys == Supplied(fields, record_update)
        height_cm == ProfileField(get_user_by_id(store, user_id), "height", PyNone)
        with_bmi == container = "body_metrics" /\ record_update.weight # PyNone
                    /\ Truthy(height_cm)
    IN  [key \in keys \cup {"updatedAt"} \cup (IF with_bmi THEN {"bmi"} ELSE {}) |->
            CASE key = "updatedAt" -> PyStr(isoformat(now))
              [] key = "bmi" -> calculate_bmi(record_update.weight, height_cm)
              [] OTHER -> IsoIfDatetime(record_update[fields[key]])]

\* PUT /workouts/{id}, /body-metrics/{id}, /nutrition/{id}, run without
\* interruption
update_record(store, container, id, user_id, now, record_update) ==
    IF get_by_id(store, container, id, user_id) = PyNone
    THEN Answer(404, PyNone, store)
    ELSE LET updated == update(store, container, id, user_id,
                               Updates(store, container, user_id, now, record_update))
         IN  IF updated.raised THEN Answer(500, PyNone, store)
             ELSE Answer(200, updated.value, updated.store)

\* GET /workouts, /body-metrics, /nutrition: every answer the store allows
get_records(store, container, user_id, page, page_size, type, start_date, end_date) ==
    {Answer(200, [items |-> found.items, total |-> found.total, page |-> page,
                  pageSize |-> page_size], store) :
        found \in get_user_records(store, container, user_id, page, page_size, type,
                                   start_date, end_date)}

\* the statistics function of each kind of record
StatsOf(container, items) ==
    CASE container = "workouts" -> calculate_workout_stats(items)
      [] container = "body_metrics" -> Return(calculate_body_metrics_stats(items))
      [] container = "nutrition" -> calculate_nutrition_stats(items)

\* the records a stats handler computes on: page 1 of the user's records in
\* the last `days` days
StatsItems(store, container, user_id, days, type, now) ==
    LET range == get_date_range(days, now)
    IN  {found.items :
            found \in get_user_records(store, container, user_id, 1, StatsPageSize,
                                       type, range[1], range[2])}

\* GET /workouts/stats, /body-metrics/stats, /nutrition/stats: an exception
\* of the statistics function is answered 500
get_stats(store, container, user_id, days, type, now) ==
    {LET stats == StatsOf(container, items)
     IN  IF stats.raised THEN Answer(500, PyNone, store)
         ELSE Answer(200, stats.value, store) :
        items \in StatsItems(store, container, user_id, days, type, now)}

\* GET /dashboard/overview
get_dashboard_overview(store, user_id, days, now) ==
    {LET body_metrics_stats == StatsOf("body_metrics", body_metrics_data)
         workout_stats == StatsOf("workouts", workouts_data)
         nutrition_stats == StatsOf("nutrition", nutrition_data)
         total_photos == Cardinality(Matching(store, "progress_photos", user_id,
                                              PyNone, PyNone, PyNone))
     IN  IF workout_stats.raised \/ nutrition_stats.raised
         THEN Answer(500, PyNone, store)
         ELSE Answer(200, [bodyMetrics |-> body_metrics_stats.value,
                           workoutStats |-> workout_stats.value,
                           nutritionStats |-> nutrition_stats.value,
                           totalProgressPhotos |-> PyInt(total_photos)], store) :
        body_metrics_data \in StatsItems(store, "body_metrics", user_id, days, PyNone, now),
        workouts_data \in StatsItems(store, "workouts", user_id, days, PyNone, now),
        nutrition_data \in StatsItems(store, "nutrition", user_id, days, PyNone, now)}

-----------------------------------------------------------------------------
(* The backend as a state machine: users send requests, one at a time      *)

\* the uuid4() values the handlers may draw
MaxIds == 2

\* the seconds the clock may advance
MaxClock == 2

\* the authenticated users
ApiUsers == {<<"u", "1">>, <<"u", "2">>}

\* their documents in the users container: one with a profile, one without
UserDocuments ==
    {[id |-> PyStr(<<"u", "1">>),
      profile |-> [height |-> PyInt(175), weight |-> PyFloat(80000)]],
     [id |-> PyStr(<<"u", "2">>), profile |-> <<>>]}

\* datetime.utcnow()
Epoch == Instant(2024, 3, 15, 8, 30, 0, 0)

Now == [Epoch EXCEPT !.ss = clock]

\* a moment in the last 30 days and one before them
Recently == Instant(2024, 3, 10, 8, 30, 0, 0)

LongAgo == Instant(2024, 1, 7, 8, 30, 0, 0)

Running == PyStr(<<"r", "u", "n", "n", "i", "n", "g">>)

\* bodies of POST /workouts: caloriesBurned left out, 0 and 250
WorkoutCreates(times) ==
    {[workout_type |-> Running, duration |-> PyInt(1800), distance |-> PyNone,
      calories_burned |-> c, intensity |-> PyNone, notes |-> PyNone,
      start_time |-> t, end_time |-> [t EXCEPT !.hh = 9]] :
        c \in {PyNone, PyInt(0), PyInt(250)}, t \in times}

\* bodies of POST /body-metrics
BodyMetricCreates(times) ==
    {[weight |-> w, body_fat_percentage |-> PyNone, muscle_mass |-> PyNone,
      notes |-> PyNone, recorded_at |-> t] :
        w \in {PyNone, PyFloat(70000)}, t \in times}

Lunch == PyStr(<<"l", "u", "n", "c", "h">>)

Rice == PyStr(<<"r", "i", "c", "e">>)

\* bodies of POST /nutrition: with and without protein, carbohydrates and fat
NutritionCreates(times) ==
    {[meal_type |-> Lunch, food_name |-> Rice, calories |-> PyInt(500),
      protein |-> m[1], carbohydrates |-> m[2], fat |-> m[3], portion |-> PyNone,
      notes |-> PyNone, recorded_at |-> t] :
        m \in {<<PyNone, PyNone, PyNone>>,
               <<PyFloat(30250), PyFloat(60000), PyFloat(10250)>>},
        t \in times}

\* an update request that supplies nothing
NoUpdate(container) ==
    [attribute \in {UpdateFields(container)[key] : key \in DOMAIN UpdateFields(container)}
        |-> PyNone]

\* bodies of PUT: nothing supplied, one attribute, two attributes
RecordUpdates(container) ==
    CASE container = "workouts" ->
            {NoUpdate(container),
             [NoUpdate(container) EXCEPT !.distance = PyFloat(5125)],
             [NoUpdate(container) EXCEPT !.calories_burned = PyInt(300),
                                         !.start_time = LongAgo]}
      [] container = "body_metrics" ->
            {NoUpdate(container),
             [NoUpdate(container) EXCEPT !.weight = PyFloat(72500)],
             [NoUpdate(container) EXCEPT !.body_fat_percentage = PyFloat(18500)]}
      [] container = "nutrition" ->
            {NoUpdate(container),
             [NoUpdate(container) EXCEPT !.protein = PyFloat(12500)],
             [NoUpdate(container) EXCEPT !.calories = PyInt(250),
                                         !.recorded_at = LongAgo]}

\* the kinds of records the handlers above serve
Kinds == {"workouts", "body_metrics", "nutrition"}

\* the ids a client may ask for: those handed out and one that never was
KnownIds == {uuid4(n) : n \in 1..(ids + 1)}

\* the days a stats request looks back
StatsDays == {30}

\* the aggregation core is not called on its own
NoCall ==
    /\ pc = "idle"
    /\ fn = ""
    /\ args = <<>>
    /\ result = <<>>
    /\ raised = FALSE
    /\ caller = <<>>

ApiInit ==
    /\ NoCall
    /\ db = [users |-> UserDocuments, body_metrics |-> {}, workouts |-> {},
             nutrition |-> {}, progress_photos |-> {}]
    /\ blobs = {}
    /\ clock = 0
    /\ ids = 0
    /\ requests = <<>>
    /\ last = <<>>

\* what a run of the backend covers: the users who send requests, the
\* moments their records are dated, the uuid4() values and the seconds of the
\* clock it may use up
ApiScope == [users |-> ApiUsers, times |-> {Recently}, ids |-> MaxIds,
             clock |-> MaxClock]

\* the last request left the store as it found it
StoreLeftAlone == last # <<>> /\ last.before = db

\* the handler answers: the store is as it leaves it and the request is noted
\* with the store it found; the clock advances by a second with every request
\* that changes the store.  A request that leaves the store as it is leaves
\* the clock and the ids too, so whatever may follow it may as well be sent in
\* its place: no request is sent after one
Answered(scope, route, container, user_id, request, answer) ==
    /\ answer.store # db => clock < scope.clock
    /\ db' = answer.store
    /\ clock' = IF answer.store # db THEN clock + 1 ELSE clock
    /\ last' = [route |-> route, container |-> container, user_id |-> user_id,
                request |-> request, now |-> Now, status |-> answer.status,
                body |-> answer.body, before |-> db]
    /\ UNCHANGED <<blobs, requests>>
    /\ UNCHANGED aggregation

PostWorkouts(scope) ==
    /\ ~StoreLeftAlone
    /\ ids < scope.ids
    /\ \E user_id \in scope.users, workout \in WorkoutCreates(scope.times) :
          Answered(scope, "create", "workouts", user_id, workout,
                   create_workout(db, Now, uuid4(ids + 1), user_id, workout))
    /\ ids' = ids + 1

PostBodyMetrics(scope) ==
    /\ ~StoreLeftAlone
    /\ ids < scope.ids
    /\ \E user_id \in scope.users, metric \in BodyMetricCreates(scope.times) :
          Answered(scope, "create", "body_metrics", user_id, metric,
                   create_body_metric(db, Now, uuid4(ids + 1), user_id, metric))
    /\ ids' = ids + 1

PostNutrition(scope) ==
    /\ ~StoreLeftAlone
    /\ ids < scope.ids
    /\ \E user_id \in scope.users, nutrition \in NutritionCreates(scope.times) :
          Answered(scope, "create", "nutrition", user_id, nutrition,
                   create_nutrition(db, Now, uuid4(ids + 1), user_id, nutrition))
    /\ ids' = ids + 1

GetRecord(scope) ==
    /\ ~StoreLeftAlone
    /\ \E container \in Kinds, user_id \in scope.users, id \in KnownIds :
          Answered(scope, "get", container, user_id, [id |-> id],
                   get_record(db, container, id, user_id))
    /\ UNCHANGED ids

PutRecord(scope) ==
    /\ ~StoreLeftAlone
    /\ \E container \in Kinds, user_id \in scope.users, id \in KnownIds :
          \E record_update \in RecordUpdates(container) :
             Answered(scope, "update", container, user_id,
                      [id |-> id, update |-> record_update],
                      update_record(db, container, id, user_id, Now, record_update))
    /\ UNCHANGED ids

DeleteRecord(scope) ==
    /\ ~StoreLeftAlone
    /\ \E container \in Kinds, user_id \in scope.users, id \in KnownIds :
          Answered(scope, "delete", container, user_id, [id |-> id],
                   delete_record(db, container, id, user_id))
    /\ UNCHANGED ids

\* page 1 of 20 records and page 2 of 1
GetRecords(scope) ==
    /\ ~StoreLeftAlone
    /\ \E container \in Kinds, user_id \in scope.users,
          paging \in {<<1, 20>>, <<2, 1>>} :
          \E answer \in get_records(db, container, user_id, paging[1], paging[2],
                                    PyNone, PyNone, PyNone) :
             Answered(scope, "list", container, user_id,
                      [page |-> paging[1], page_size |-> paging[2]], answer)
    /\ UNCHANGED ids

GetStats(scope) ==
    /\ ~StoreLeftAlone
    /\ \E container \in Kinds, user_id \in scope.users, days \in StatsDays :
          \E answer \in get_stats(db, container, user_id, days, PyNone, Now) :
             Answered(scope, "stats", container, user_id, [days |-> days], answer)
    /\ UNCHANGED ids

GetDashboardOverview(scope) ==
    /\ ~StoreLeftAlone
    /\ \E user_id \in scope.users, days \in StatsDays :
          \E answer \in get_dashboard_overview(db, user_id, days, Now) :
             Answered(scope, "overview", "dashboard", user_id, [days |-> days], answer)
    /\ UNCHANGED ids

ApiNext ==
    \/ PostWorkouts(ApiScope)
    \/ PostBodyMetrics(ApiScope)
    \/ PostNutrition(ApiScope)
    \/ GetRecord(ApiScope)
    \/ PutRecord(ApiScope)
    \/ DeleteRecord(ApiScope)
    \/ GetRecords(ApiScope)
    \/ GetStats(ApiScope)
    \/ GetDashboardOverview(ApiScope)

SpecApi == ApiInit /\ [][ApiNext]_vars

-----------------------------------------------------------------------------
(* One user who stores more records than a stats handler fetches *)

\* one user, records of the last 30 days and older ones, one record more than
\* the page of the stats handlers
StatsScope == [users |-> {<<"u", "1">>}, times |-> {Recently, LongAgo},
               ids |-> StatsPageSize + 1, clock |-> StatsPageSize + 1]

StatsNext ==
    \/ PostWorkouts(StatsScope)
    \/ PostBodyMetrics(StatsScope)
    \/ PostNutrition(StatsScope)
    \/ GetStats(StatsScope)
    \/ GetDashboardOverview(StatsScope)

SpecStats == ApiInit /\ [][StatsNext]_vars

-----------------------------------------------------------------------------
(* What the properties are stated with *)

Abs(x) == IF x < 0 THEN -x ELSE x

\* r is num / den (den > 0) rounded to a multiple of `step` thousandths: a
\* multiple of step at most half a step away (either neighbour at a tie)
IsRounded(r, num, den, step) ==
    /\ r % step = 0
    /\ 2 * Abs(r * den - num) <= step * den

\* the sum of a list, added up from its first element
Total(values) ==
    LET tot[i \in 0..Len(values)] == IF i = 0 THEN 0 ELSE tot[i - 1] + values[i]
    IN  tot[Len(values)]

\* the k-th smallest element of a list, repeated elements counted
Kth(values, k) ==
    CHOOSE x \in {values[i] : i \in 1..Len(values)} :
        /\ Cardinality({i \in 1..Len(values) : values[i] < x}) < k
        /\ Cardinality({i \in 1..Len(values) : values[i] <= x}) >= k

Returned(f) == pc = "return" /\ fn = f

-----------------------------------------------------------------------------
(* C1: on an empty list every aggregation function returns its default and *)
(* does not raise: calculate_statistics four zeros, aggregate_by_period an *)
(* empty list, calculate_body_metrics_stats five None, calculate_workout_- *)
(* stats {0, 0, 0, None}, calculate_nutrition_stats four zeros.            *)
C1_EmptyDefaults ==
    /\ Returned("calculate_statistics") /\ args.values = <<>>
         => ~raised /\ result = [min |-> 0, max |-> 0, average |-> 0, median |-> 0]
    /\ Returned("aggregate_by_period") /\ args.data = <<>>
         => ~raised /\ result = <<>>
    /\ Returned("calculate_body_metrics_stats") /\ args.records = <<>>
         => ~raised /\ \A f \in {"latest_weight", "average_weight", "weight_change",
                                 "latest_bmi", "latest_body_fat"} :
                          f \in DOMAIN result /\ result[f] = PyNone
    /\ Returned("calculate_workout_stats") /\ args.records = <<>>
         => /\ ~raised
            /\ IsNumber(result.total_workouts) /\ Milli(result.total_workouts) = 0
            /\ IsNumber(result.total_duration) /\ Milli(result.total_duration) = 0
            /\ IsNumber(result.total_calories) /\ Milli(result.total_calories) = 0
            /\ result.total_distance = PyNone
    /\ Returned("calculate_nutrition_stats") /\ args.records = <<>>
         => ~raised /\ \A f \in {"total_calories", "total_protein",
                                 "total_carbohydrates", "total_fat"} :
                          IsNumber(result[f]) /\ Milli(result[f]) = 0

\* an empty list of workouts was summarised
C1_Witness ==
    /\ Returned("calculate_workout_stats") /\ args.records = <<>> /\ ~raised
    /\ result.total_distance = PyNone

(* C2: for a non-empty list calculate_statistics returns the smallest       *)
(* element, the largest element, the arithmetic mean and the median (the    *)
(* middle element of the sorted list, or the mean of the two middle ones),  *)
(* each rounded to 2 decimals, so min <= median <= max and                  *)
(* min <= average <= max.                                                   *)
C2_Statistics ==
    Returned("calculate_statistics") /\ args.values # <<>> =>
        LET values == args.values
            n == Len(values)
            elements == {values[i] : i \in 1..n}
            smallest == CHOOSE x \in elements : \A y \in elements : x <= y
            largest == CHOOSE x \in elements : \A y \in elements : x >= y
        IN  /\ ~raised
            /\ IsRounded(result.min, smallest, 1, 10)
            /\ IsRounded(result.max, largest, 1, 10)
            /\ IsRounded(result.average, Total(values), n, 10)
            /\ IF n % 2 = 1
               THEN IsRounded(result.median, Kth(values, (n + 1) \div 2), 1, 10)
               ELSE IsRounded(result.median,
                              Kth(values, n \div 2) + Kth(values, n \div 2 + 1), 2, 10)
            /\ result.min <= result.median /\ result.median <= result.max
            /\ result.min <= result.average /\ result.average <= result.max

\* calculate_statistics([10.0, 1.25, 5.0, 2.5]) =
\* {min: 1.25, max: 10.0, average: 4.69, median: 3.75}, the mean being 4.6875
C2_Witness ==
    /\ Returned("calculate_statistics")
    /\ args.values = <<10000, 1250, 5000, 2500>>
    /\ result = [min |-> 1250, max |-> 10000, average |-> 4690, median |-> 3750]

(* C3: calculate_change returns {absolute: 0.0, percentage: 0.0} when old   *)
(* is None, new is None or old == 0; otherwise absolute = new - old and     *)
(* percentage = (new - old) / old * 100, both rounded to 2 decimals; it     *)
(* never raises.                                                            *)
C3_Change ==
    Returned("calculate_change") =>
        /\ ~raised
        /\ IF IsNone(args.old_value) \/ IsNone(args.new_value)
           THEN result = [absolute |-> 0, percentage |-> 0]
           ELSE LET old == Milli(args.old_value)
                    new == Milli(args.new_value)
                IN  IF old = 0
                    THEN result = [absolute |-> 0, percentage |-> 0]
                    ELSE /\ IsRounded(result.absolute, new - old, 1, 10)
                         \* the percentage is (new - old) * 100000 / old thousandths,
                         \* so a tenth of it is (new - old) * 10000 / old
                         /\ result.percentage % 10 = 0
                         /\ IF old > 0
                            THEN IsRounded(result.percentage \div 10,
                                           (new - old) * 10000, old, 1)
                            ELSE IsRounded(result.percentage \div 10,
                                           (old - new) * 10000, -old, 1)

\* change(100, 150) = {absolute: 50.0, percentage: 50.0}
C3_Witness ==
    /\ Returned("calculate_change")
    /\ args.old_value = PyFloat(100000) /\ args.new_value = PyFloat(150000)
    /\ result = [absolute |-> 50000, percentage |-> 50000]

-----------------------------------------------------------------------------
(* What the properties of aggregate_by_period are stated with *)

\* the record has a date: the date field is there, not None and not empty
HasDate(r) ==
    /\ args.date_field \in DOMAIN r
    /\ r[args.date_field] # PyNone
    /\ r[args.date_field] # PyStr(<<>>)

\* the record has a value: the value field is there and not None (0 is a value)
HasValue(r) ==
    /\ args.value_field \in DOMAIN r
    /\ r[args.value_field] # PyNone

\* the positions of the records that have both fields
Kept(data) == {i \in 1..Len(data) : HasDate(data[i]) /\ HasValue(data[i])}

\* the calendar date <<year, month, day>> a record's date value denotes
DateOf(r) ==
    LET dt == RecordDate(r[args.date_field], FALSE).value
    IN  <<dt.y, dt.m, dt.d>>

\* the sum of the thousandths x[i] over the positions i in S
RECURSIVE TotalOver(_, _)
TotalOver(x, S) ==
    IF S = {} THEN 0
    ELSE LET i == CHOOSE j \in S : TRUE IN x[i] + TotalOver(x, S \ {i})

\* the key the date of record r receives under the call's period
KeyOf(r) == PeriodKey(RecordDate(r[args.date_field], FALSE).value, args.period)

(* C4: aggregate_by_period skips, without raising, each record that lacks   *)
(* the date field or the value field (missing, None, or an empty date), and *)
(* the counts of the returned buckets add up to the number of records that  *)
(* have both; a value of 0 counts as present.                               *)
C4_CountsPresent ==
    Returned("aggregate_by_period") =>
        /\ ~raised
        /\ TotalOver([i \in 1..Len(result) |-> Milli(result[i].count) \div 1000],
                     1..Len(result))
           = Cardinality(Kept(args.data))

\* a record without a date is skipped and a record whose value is 0 is counted
C4_Witness ==
    /\ Returned("aggregate_by_period") /\ ~raised
    /\ \E i \in 1..Len(args.data) : ~HasDate(args.data[i]) /\ HasValue(args.data[i])
    /\ \E i \in Kept(args.data) : args.data[i][args.value_field] = PyFloat(0)
    /\ Len(args.data) = 2 /\ Len(result) = 1 /\ result[1].count = PyInt(1)

(* C5: the list aggregate_by_period returns is strictly ascending by period *)
(* key, and the same list is returned for every permutation of the input.   *)
C5_SortedAndOrderFree ==
    Returned("aggregate_by_period") /\ ~raised =>
        /\ \A i, j \in 1..Len(result) :
              i < j => StrLess(result[i].period.v, result[j].period.v)
        /\ \A p \in Permutations(1..Len(args.data)) :
              \A weekDates \in BOOLEAN :
                  aggregate_by_period([i \in 1..Len(args.data) |-> args.data[p[i]]],
                                      args.date_field, args.value_field, args.period,
                                      weekDates)
                  = Return(result)

\* records given latest first come back in two buckets, earliest first
C5_Witness ==
    /\ Returned("aggregate_by_period") /\ ~raised
    /\ Len(result) >= 2
    /\ \E i, j \in Kept(args.data) : i < j /\ StrLess(KeyOf(args.data[j]), KeyOf(args.data[i]))

(* C6: each returned bucket has count = the number of non-skipped records   *)
(* whose date maps to its key, which is at least 1, and average = the mean  *)
(* of exactly those records' values rounded to 2 decimals; every            *)
(* non-skipped record is counted in exactly one bucket.                     *)
C6_Buckets ==
    Returned("aggregate_by_period") /\ ~raised =>
        LET data == args.data
            members(b) == {i \in Kept(data) : KeyOf(data[i]) = b.period.v}
            values == [i \in 1..Len(data) |->
                         IF i \in Kept(data) THEN Milli(data[i][args.value_field]) ELSE 0]
        IN  /\ \A k \in 1..Len(result) :
                  LET b == result[k]
                  IN  /\ b.count = PyInt(Cardinality(members(b)))
                      /\ members(b) # {}
                      /\ b.average.kind = "float"
                      /\ IsRounded(b.average.v, TotalOver(values, members(b)),
                                   Cardinality(members(b)), 10)
            /\ \A i \in Kept(data) :
                  Cardinality({k \in 1..Len(result) : i \in members(result[k])}) = 1

\* a bucket of two records with the values 70.125 and 72.25, whose average
\* 71.1875 is returned as 71.19
C6_Witness ==
    /\ Returned("aggregate_by_period") /\ ~raised
    /\ Len(result) = 1
    /\ result[1].count = PyInt(2) /\ result[1].average = PyFloat(71190)
    /\ \E i, j \in Kept(args.data) :
          /\ KeyOf(args.data[i]) = KeyOf(args.data[j])
          /\ args.data[i][args.value_field] = PyFloat(70125)
          /\ args.data[j][args.value_field] = PyFloat(72250)

-----------------------------------------------------------------------------
(* Period keys, written out digit by digit *)

TwoDigits(n) == <<DigitChars[((n \div 10) % 10) + 1], DigitChars[(n % 10) + 1]>>

FourDigits(n) == TwoDigits(n \div 100) \o TwoDigits(n % 100)

\* YYYY-MM-DD of a date <<y, m, d>>
DayText(date) ==
    FourDigits(date[1]) \o <<"-">> \o TwoDigits(date[2]) \o <<"-">> \o TwoDigits(date[3])

\* YYYY-MM of a date <<y, m, d>>
MonthText(date) == FourDigits(date[1]) \o <<"-">> \o TwoDigits(date[2])

\* the day number of a date <<y, m, d>>; a day number n is a Sunday when
\* n % 7 = 0 and a Monday when n % 7 = 1
DayNumber(date) == Ordinal(date[1], date[2], date[3])

\* how many Mondays the year of the date has had up to and including the date
MondaysSoFar(date) ==
    Cardinality({n \in Ordinal(date[1], 1, 1)..DayNumber(date) : n % 7 = 1})

\* YYYY-Www with ww the number of Mondays of the year so far
WeekText(date) == FourDigits(date[1]) \o <<"-", "W">> \o TwoDigits(MondaysSoFar(date))

\* records i and j of the input are counted in the same returned bucket
SameBucket(i, j) ==
    /\ KeyOf(args.data[i]) = KeyOf(args.data[j])
    /\ \E k \in 1..Len(result) : result[k].period = PyStr(KeyOf(args.data[i]))

\* the returned buckets are exactly the texts of the kept records' dates,
\* each counting the records with that text
BucketsAre(Text(_)) ==
    LET data == args.data
    IN  /\ \A k \in 1..Len(result) :
              LET same == {i \in Kept(data) : Text(DateOf(data[i])) = result[k].period.v}
              IN  same # {} /\ result[k].count = PyInt(Cardinality(same))
        /\ \A i \in Kept(data) :
              \E k \in 1..Len(result) : result[k].period = PyStr(Text(DateOf(data[i])))

(* C7: for period 'day' the key is YYYY-MM-DD and for 'month' YYYY-MM, so   *)
(* two records share a day bucket iff they have the same calendar date and  *)
(* a month bucket iff they have the same year and month; a period other     *)
(* than 'day', 'week', 'month' gives the result of 'day' and does not raise.*)
C7_DayAndMonthKeys ==
    Returned("aggregate_by_period") =>
        LET data == args.data
        IN  /\ args.period = "day" =>
                  /\ ~raised
                  /\ BucketsAre(DayText)
                  /\ \A i, j \in Kept(data) :
                        SameBucket(i, j) <=> DateOf(data[i]) = DateOf(data[j])
            /\ args.period = "month" =>
                  /\ ~raised
                  /\ BucketsAre(MonthText)
                  /\ \A i, j \in Kept(data) :
                        SameBucket(i, j) <=>
                            /\ DateOf(data[i])[1] = DateOf(data[j])[1]
                            /\ DateOf(data[i])[2] = DateOf(data[j])[2]
            /\ args.period \notin {"day", "week", "month"} =>
                  /\ ~raised
                  /\ \A weekDates \in BOOLEAN :
                        aggregate_by_period(data, args.date_field, args.value_field,
                                            "day", weekDates) = Return(result)

\* January 2024 and January 2025 are two month buckets
C7_Witness ==
    /\ Returned("aggregate_by_period") /\ ~raised /\ args.period = "month"
    /\ Len(result) = 2
    /\ \E i, j \in Kept(args.data) :
          /\ DateOf(args.data[i])[2] = DateOf(args.data[j])[2]
          /\ DateOf(args.data[i])[1] # DateOf(args.data[j])[1]

\* the pairs of kept records of one year, the earlier one first
SameYearPairs(data) ==
    {p \in Kept(data) \X Kept(data) :
        /\ DateOf(data[p[1]])[1] = DateOf(data[p[2]])[1]
        /\ DayNumber(DateOf(data[p[1]])) <= DayNumber(DateOf(data[p[2]]))}

\* a day d with d % 7 = weekday lies after the earlier and on or before the
\* later date of the pair
WeekdayBetween(data, p, weekday) ==
    \E n \in (DayNumber(DateOf(data[p[1]])) + 1)..DayNumber(DateOf(data[p[2]])) :
        n % 7 = weekday

(* C8 as stated: for period 'week' two dates of the same year receive the   *)
(* same key iff no Sunday lies after the earlier date and on or before the  *)
(* later one (weeks begin on Sunday).                                       *)
C8_WeeksBeginOnSunday ==
    Returned("aggregate_by_period") /\ ~raised /\ args.period = "week" =>
        \A p \in SameYearPairs(args.data) :
            SameBucket(p[1], p[2]) <=> ~WeekdayBetween(args.data, p, 0)

(* C8 as amended: for period 'week' the key is YYYY-Www with ww the number  *)
(* of Mondays of the year up to and including the date (%W: weeks begin on  *)
(* Monday, the days before the year's first Monday are week 00; not ISO     *)
(* week numbering), so two dates of the same year receive the same key iff  *)
(* no Monday lies after the earlier date and on or before the later one.    *)
C8_WeeksBeginOnMonday ==
    Returned("aggregate_by_period") /\ args.period = "week" =>
        /\ ~raised
        /\ BucketsAre(WeekText)
        /\ \A p \in SameYearPairs(args.data) :
              SameBucket(p[1], p[2]) <=> ~WeekdayBetween(args.data, p, 1)

\* Saturday 2024-01-06 and Sunday 2024-01-07 are both in week 2024-W01
C8_Witness ==
    /\ Returned("aggregate_by_period") /\ ~raised /\ args.period = "week"
    /\ \E i, j \in Kept(args.data) :
          DateOf(args.data[i]) = <<2024, 1, 6>> /\ DateOf(args.data[j]) = <<2024, 1, 7>>
    /\ Len(result) = 1
    /\ result[1].period = PyStr(<<"2", "0", "2", "4", "-", "W", "0", "1">>)
    /\ result[1].count = PyInt(2)

(* C9 as stated: fed its own output (date field 'period', value field       *)
(* 'average', same period), aggregate_by_period returns every bucket        *)
(* unchanged (same key, same average, same count) and does not raise.       *)
C9_Idempotent ==
    pc = "refed" => ~raised /\ result = args.data

(* C9 as amended: fed its own output for period 'day' (or a period that     *)
(* falls back to 'day'), aggregate_by_period does not raise and returns the *)
(* same period keys with the same averages in the same order, each with     *)
(* count 1; for period 'month' the keys YYYY-MM are not ISO-8601 dates and  *)
(* a non-empty output never comes back unchanged.                           *)
C9_RefedDay ==
    pc = "refed" =>
        /\ args.period \notin {"week", "month"} =>
              /\ ~raised
              /\ Len(result) = Len(args.data)
              /\ \A i \in 1..Len(result) :
                    /\ result[i].period = args.data[i].period
                    /\ result[i].average = args.data[i].average
                    /\ result[i].count = PyInt(1)
        /\ args.period = "month" /\ args.data # <<>> =>
              raised \/ result # args.data

\* a day bucket of two records comes back with count 1
C9_Witness ==
    /\ pc = "refed" /\ ~raised /\ args.period = "day"
    /\ \E i \in 1..Len(result) :
          args.data[i].count = PyInt(2) /\ result[i].count = PyInt(1)

-----------------------------------------------------------------------------
(* What the properties of calculate_body_metrics_stats are stated with *)

\* the recordedAt of a record, the empty string when it has none
RecordedAt(r) == IF "recordedAt" \in DOMAIN r THEN r["recordedAt"].v ELSE <<>>

HasWeight(r) == "weight" \in DOMAIN r /\ r["weight"] # PyNone

\* the record with the greatest recordedAt; of several, the first of the input
LatestOf(records) ==
    records[CHOOSE i \in 1..Len(records) : \A j \in 1..Len(records) :
               \/ StrLess(RecordedAt(records[j]), RecordedAt(records[i]))
               \/ RecordedAt(records[j]) = RecordedAt(records[i]) /\ i <= j]

\* the record with the smallest recordedAt; of several, the last of the input
OldestOf(records) ==
    records[CHOOSE i \in 1..Len(records) : \A j \in 1..Len(records) :
               \/ StrLess(RecordedAt(records[i]), RecordedAt(records[j]))
               \/ RecordedAt(records[j]) = RecordedAt(records[i]) /\ j <= i]

\* weight_change is to be reported for these records
ChangeDue(records) ==
    /\ Len(records) >= 2
    /\ HasWeight(LatestOf(records)) /\ HasWeight(OldestOf(records))

(* C10 as stated: calculate_body_metrics_stats reports weight_change iff    *)
(* there are at least 2 records and both the record with the greatest and   *)
(* the record with the smallest recordedAt have a weight; when reported it  *)
(* equals latest.weight - oldest.weight.                                    *)
C10_ExactDifference ==
    Returned("calculate_body_metrics_stats") =>
        LET records == args.records
        IN  /\ result.weight_change # PyNone <=> ChangeDue(records)
            /\ ChangeDue(records) =>
                  result.weight_change =
                      PyFloat(Milli(LatestOf(records)["weight"])
                              - Milli(OldestOf(records)["weight"]))

(* C10 as amended: weight_change is reported iff there are at least 2       *)
(* records and both the record with the greatest and the record with the    *)
(* smallest recordedAt have a weight; when reported it is                   *)
(* latest.weight - oldest.weight rounded to 2 decimals (0.0, not absent,    *)
(* when the two weights are equal); otherwise it is absent even if records  *)
(* in between carry weights.                                                *)
C10_RoundedDifference ==
    Returned("calculate_body_metrics_stats") =>
        LET records == args.records
        IN  /\ ~raised
            /\ result.weight_change # PyNone <=> ChangeDue(records)
            /\ ChangeDue(records) =>
                  /\ result.weight_change.kind = "float"
                  /\ IsRounded(result.weight_change.v,
                               Milli(LatestOf(records)["weight"])
                               - Milli(OldestOf(records)["weight"]), 1, 10)

\* 70.125 kg after 70.0 kg is reported as a change of 0.12
C10_Witness ==
    /\ Returned("calculate_body_metrics_stats")
    /\ Len(args.records) = 2 /\ ChangeDue(args.records)
    /\ Milli(LatestOf(args.records)["weight"]) = 70125
    /\ Milli(OldestOf(args.records)["weight"]) = 70000
    /\ result.weight_change = PyFloat(120)


\* the value of a field of a record, None when the record lacks it
FieldOf(r, field) == IF field \in DOMAIN r THEN r[field] ELSE PyNone

(* C11: on a list of exactly one record calculate_body_metrics_stats        *)
(* returns that record's weight as latest_weight and None (not 0) as        *)
(* weight_change.                                                           *)
C11_SingleRecord ==
    Returned("calculate_body_metrics_stats") /\ Len(args.records) = 1 =>
        /\ ~raised
        /\ result.latest_weight = FieldOf(args.records[1], "weight")
        /\ result.weight_change = PyNone

\* the one record weighs 70.125
C11_Witness ==
    /\ Returned("calculate_body_metrics_stats") /\ Len(args.records) = 1
    /\ result.latest_weight = PyFloat(70125)
    /\ result.weight_change = PyNone

(* C12: for a non-empty list calculate_body_metrics_stats returns as        *)
(* latest_weight, latest_bmi and latest_body_fat the weight, bmi and        *)
(* bodyFatPercentage of the record with the greatest recordedAt (the first  *)
(* of the input among several), as they are, None when that record lacks    *)
(* the field; a record without recordedAt is older than every record that   *)
(* has one.                                                                 *)
C12_LatestPassThrough ==
    Returned("calculate_body_metrics_stats") /\ args.records # <<>> =>
        LET records == args.records
            latest == LatestOf(records)
        IN  /\ ~raised
            /\ result.latest_weight = FieldOf(latest, "weight")
            /\ result.latest_bmi = FieldOf(latest, "bmi")
            /\ result.latest_body_fat = FieldOf(latest, "bodyFatPercentage")
            /\ (\E i \in 1..Len(records) : "recordedAt" \in DOMAIN records[i])
                  => "recordedAt" \in DOMAIN latest

\* the latest record has no bmi although an older one has, and a record
\* without recordedAt comes first in the input
C12_Witness ==
    /\ Returned("calculate_body_metrics_stats") /\ Len(args.records) = 3
    /\ "recordedAt" \notin DOMAIN args.records[1]
    /\ FieldOf(args.records[1], "bmi") # PyNone
    /\ result.latest_weight = PyFloat(70125)
    /\ result.latest_bmi = PyNone

(* C13: average_weight is the mean of the weights of the records that have *)
(* a weight, rounded to 1 decimal, and None exactly when no record has a    *)
(* weight; a record without a weight does not count in the denominator.     *)
C13_AverageWeight ==
    Returned("calculate_body_metrics_stats") =>
        LET records == args.records
            weighed == {i \in 1..Len(records) : HasWeight(records[i])}
            weight == [i \in 1..Len(records) |->
                          IF i \in weighed THEN Milli(records[i]["weight"]) ELSE 0]
        IN  /\ ~raised
            /\ result.average_weight = PyNone <=> weighed = {}
            /\ weighed # {} =>
                  /\ result.average_weight.kind = "float"
                  /\ IsRounded(result.average_weight.v, TotalOver(weight, weighed),
                               Cardinality(weighed), 100)

\* two weights 70.0 and 70.125 and a record without weight: the mean 70.0625
\* of the two is returned as 70.1
C13_Witness ==
    /\ Returned("calculate_body_metrics_stats") /\ Len(args.records) = 3
    /\ Cardinality({i \in 1..3 : HasWeight(args.records[i])}) = 2
    /\ \E i, j \in 1..3 : /\ FieldOf(args.records[i], "weight") = PyFloat(70000)
                          /\ FieldOf(args.records[j], "weight") = PyFloat(70125)
    /\ result.average_weight = PyFloat(70100)


-----------------------------------------------------------------------------
(* What the properties of the workout and nutrition totals are stated with *)

\* the record has no value for the field: the field is absent or None
Lacks(r, field) == field \notin DOMAIN r \/ r[field] = PyNone

\* the sum of a field over the records, in thousandths, a record that lacks
\* the field contributing 0
FieldTotal(records, field) ==
    TotalOver([i \in 1..Len(records) |->
                  IF Lacks(records[i], field) THEN 0 ELSE Milli(records[i][field])],
              1..Len(records))

(* C14: for every list of workout records calculate_workout_stats returns   *)
(* total_workouts = the number of records, total_duration = the sum of      *)
(* duration and total_calories = the sum of caloriesBurned, a record        *)
(* without caloriesBurned contributing 0 and never causing an error.        *)
C14_WorkoutTotals ==
    Returned("calculate_workout_stats") =>
        LET records == args.records
        IN  /\ ~raised
            /\ result.total_workouts = PyInt(Len(records))
            /\ Milli(result.total_duration) = FieldTotal(records, "duration")
            /\ Milli(result.total_calories) = FieldTotal(records, "caloriesBurned")

(* C15: calculate_workout_stats returns as total_distance the sum of the    *)
(* distances of the records that have one, rounded to 2 decimals, and None  *)
(* exactly when no record has a distance; records whose distance is absent  *)
(* or None are ignored and never raise.                                     *)
C15_TotalDistance ==
    Returned("calculate_workout_stats") =>
        LET records == args.records
            measured == {i \in 1..Len(records) : ~Lacks(records[i], "distance")}
        IN  /\ ~raised
            /\ result.total_distance = PyNone <=> measured = {}
            /\ measured # {} =>
                  /\ result.total_distance.kind = "float"
                  /\ IsRounded(result.total_distance.v,
                               FieldTotal(records, "distance"), 1, 10)

(* C16: for every non-empty list of nutrition records                       *)
(* calculate_nutrition_stats returns total_calories = the sum of calories   *)
(* and total_protein, total_carbohydrates, total_fat = the sums of protein, *)
(* carbohydrates, fat rounded to 1 decimal, a record in which such a field  *)
(* is missing contributing 0 and causing no error.                          *)
C16_NutritionTotals ==
    Returned("calculate_nutrition_stats") /\ args.records # <<>> =>
        LET records == args.records
        IN  /\ ~raised
            /\ Milli(result.total_calories) = FieldTotal(records, "calories")
            /\ IsRounded(Milli(result.total_protein),
                         FieldTotal(records, "protein"), 1, 100)
            /\ IsRounded(Milli(result.total_carbohydrates),
                         FieldTotal(records, "carbohydrates"), 1, 100)
            /\ IsRounded(Milli(result.total_fat), FieldTotal(records, "fat"), 1, 100)


-----------------------------------------------------------------------------
(* C17: calculate_calories_burned lowercases the workout type and replaces  *)
(* spaces by underscores, looks the name up in the MET table with 5.0 for a *)
(* name that is not there, and returns the integer nearest to               *)
(* MET * weight * minutes / 60; it never raises, returns 0 for 0 minutes,   *)
(* and for one workout type and weight never decreases as the minutes grow  *)
(* (running, 30, 70 gives 343; unknown_sport, 60, 70 gives 350).            *)
C17_CaloriesBurned ==
    Returned("calculate_calories_burned") =>
        LET name == args.workout_type
            minutes == args.duration_minutes
            weight == Milli(args.weight_kg)
            running == <<"r", "u", "n", "n", "i", "n", "g">>
            strength == <<"s", "t", "r", "e", "n", "g", "t", "h", "_",
                          "t", "r", "a", "i", "n", "i", "n", "g">>
            met == IF LowerUnderscored(name) = running THEN 98
                   ELSE IF LowerUnderscored(name) = strength THEN 60
                   ELSE IF \E e \in MET_VALUES : e[1] = LowerUnderscored(name)
                   THEN (CHOOSE e \in MET_VALUES : e[1] = LowerUnderscored(name))[2]
                   ELSE 50
        IN  /\ ~raised
            /\ result.kind = "int"
            /\ IsRounded(result.v, met * weight * minutes, 600000, 1)
            /\ minutes = 0 => result.v = 0
            /\ \A less \in Minutes :
                  less <= minutes =>
                      calculate_calories_burned(name, less, args.weight_kg).v <= result.v
            /\ name \in {running, <<"R">> \o Tail(running)} /\ minutes = 30
                  /\ weight = 70000 => result.v = 343
            /\ LowerUnderscored(name) \notin {e[1] : e \in MET_VALUES} /\ minutes = 60
                  /\ weight = 70000 => result.v = 350
            /\ Len(name) = 17 /\ name[9] = " " => LowerUnderscored(name) = strength

\* "Strength Training" for 45 minutes at 55.5 kg: 6.0 * 55.5 * 0.75 = 249.75
\* is returned as 250
C17_Witness ==
    /\ Returned("calculate_calories_burned") /\ ~raised
    /\ Len(args.workout_type) = 17 /\ args.workout_type[9] = " "
    /\ args.duration_minutes = 45 /\ args.weight_kg = PyFloat(55500)
    /\ result = PyInt(250)


-----------------------------------------------------------------------------
(* What the property of get_date_range is stated with *)

\* the text has the UTC marker Z at its end
HasUtcMarker(text) == Len(text) > 0 /\ text[Len(text)] = "Z"

\* the instant written as YYYY-MM-DDTHH:MM:SS[.ffffff] before the marker
ReadInstant(text) ==
    LET body == SubSeq(text, 1, Len(text) - 1)
        field(from, to) == ParseInt(SubSeq(body, from, to))
    IN  [date |-> <<field(1, 4), field(6, 7), field(9, 10)>>,
         time |-> <<field(12, 13), field(15, 16), field(18, 19),
                    IF Len(body) = 26 THEN field(21, 26) ELSE 0>>]

(* C18: for every days >= 0 get_date_range(days) returns (start, end), both *)
(* with a UTC marker, where end is the current UTC instant and start is     *)
(* exactly days days before it: the same time of day, days dates earlier,   *)
(* so start <= end.                                                         *)
C18_DateRange ==
    Returned("get_date_range") =>
        /\ ~raised
        /\ Len(result) = 2
        /\ \A i \in 1..2 :
              /\ result[i].kind = "str"
              /\ HasUtcMarker(result[i].v)
              /\ Len(result[i].v) \in {20, 27}
              /\ result[i].v[5] = "-" /\ result[i].v[8] = "-" /\ result[i].v[11] = "T"
        /\ LET start == ReadInstant(result[1].v)
               end == ReadInstant(result[2].v)
               now == args.utcnow
           IN  /\ end.date = <<now.y, now.m, now.d>>
               /\ end.time = <<now.hh, now.mi, now.ss, now.us>>
               /\ start.time = end.time
               /\ DayNumber(end.date) - DayNumber(start.date) = args.days
               /\ DayNumber(start.date) <= DayNumber(end.date)

\* 30 days before 2024-03-15T08:30:00.250000Z is 2024-02-14T08:30:00.250000Z
C18_Witness ==
    /\ Returned("get_date_range") /\ ~raised /\ args.days = 30
    /\ args.utcnow = Instant(2024, 3, 15, 8, 30, 0, 250000)
    /\ ReadInstant(result[1].v).date = <<2024, 2, 14>>
    /\ ReadInstant(result[1].v).time = <<8, 30, 0, 250000>>
    /\ HasUtcMarker(result[1].v) /\ HasUtcMarker(result[2].v)


-----------------------------------------------------------------------------
-----------------------------------------------------------------------------
(* What the property of the rounding precision is stated with *)

\* the number x has at most `decimals` decimal places; None has no decimals
AtMostDecimals(x, decimals) ==
    \/ x = PyNone
    \/ /\ IsNumber(x)
       /\ Milli(x) % (IF decimals = 1 THEN 100 ELSE 10) = 0

\* calculate_statistics, calculate_change, the bucket averages and
\* total_distance carry at most two decimals
TwoDecimalOutputs ==
    /\ Returned("calculate_statistics") =>
          \A f \in {"min", "max", "average", "median"} : result[f] % 10 = 0
    /\ Returned("calculate_change") =>
          result.absolute % 10 = 0 /\ result.percentage % 10 = 0
    /\ pc \in {"return", "refed"} /\ fn = "aggregate_by_period" /\ ~raised =>
          \A k \in 1..Len(result) : AtMostDecimals(result[k].average, 2)
    /\ Returned("calculate_workout_stats") /\ ~raised =>
          AtMostDecimals(result.total_distance, 2)

(* C20 as stated: average_weight and weight_change of                       *)
(* calculate_body_metrics_stats carry at most one decimal place; the        *)
(* outputs of calculate_statistics and calculate_change, the bucket         *)
(* averages and total_distance carry at most two.                           *)
C20_WeightOutputsOneDecimal ==
    /\ Returned("calculate_body_metrics_stats") =>
          /\ AtMostDecimals(result.average_weight, 1)
          /\ AtMostDecimals(result.weight_change, 1)
    /\ TwoDecimalOutputs

(* C20 as amended: average_weight of calculate_body_metrics_stats carries   *)
(* at most one decimal place; weight_change, the outputs of                 *)
(* calculate_statistics and calculate_change, the bucket averages and       *)
(* total_distance carry at most two.                                        *)
C20_Precision ==
    /\ Returned("calculate_body_metrics_stats") =>
          /\ AtMostDecimals(result.average_weight, 1)
          /\ AtMostDecimals(result.weight_change, 2)
    /\ TwoDecimalOutputs

\* weights 70.0 and then 70.125: the average 70.0625 is returned as 70.1 and
\* the change 0.125 as 0.12
C20_Witness ==
    /\ Returned("calculate_body_metrics_stats") /\ Len(args.records) = 2
    /\ result.average_weight = PyFloat(70100)
    /\ result.weight_change = PyFloat(120)


-----------------------------------------------------------------------------
\* C21: aggregate_by_period never raises on records whose value field is a
\* number, None or missing, whatever their date field holds: a record whose
\* date is a string that is no ISO-8601 timestamp is handled by a fallback and
\* a result is returned.
C21_NoFailureOnMalformedDate ==
    (pc = "return" /\ fn = "aggregate_by_period"
     /\ \A i \in 1..Len(args.data) :
            IsNone(Get(args.data[i], "weight")) \/ IsNumber(Get(args.data[i], "weight")))
    => ~raised


-----------------------------------------------------------------------------
\* every list that holds the records of s in some order
PermutationsOf(s) ==
    {[i \in 1..Len(s) |-> s[p[i]]] :
        p \in {q \in [1..Len(s) -> 1..Len(s)] :
                  \A i, j \in 1..Len(s) : q[i] = q[j] => i = j}}

\* C29: calculate_body_metrics_stats does not depend on the order of its
\* input: on every permutation of the records, also when several share a
\* recordedAt or lack it, it returns the same latest_weight, latest_bmi,
\* latest_body_fat, average_weight and weight_change.
C29_OrderFree ==
    Returned("calculate_body_metrics_stats") =>
        \A t \in PermutationsOf(args.records) :
            LET other == calculate_body_metrics_stats(t)
            IN  /\ other.latest_weight = result.latest_weight
                /\ other.latest_bmi = result.latest_bmi
                /\ other.latest_body_fat = result.latest_body_fat
                /\ other.average_weight = result.average_weight
                /\ other.weight_change = result.weight_change


-----------------------------------------------------------------------------
(* The requests of the backend *)

\* the last request was sent to `route` of `container`
Sent(route, container) ==
    last # <<>> /\ last.route = route /\ last.container = container

\* the records of a container the user of the last request held in the window
\* of that request, in the store the request found
InWindow(container) ==
    LET range == get_date_range(last.request.days, last.now)
    IN  Matching(last.before, container, last.user_id, PyNone, range[1], range[2])

\* a nutrition record with its omitted protein, carbohydrates and fat read as 0
OmittedAsZero(d) ==
    [f \in DOMAIN d |->
        IF f \in {"protein", "carbohydrates", "fat"} /\ d[f] = PyNone
        THEN PyInt(0) ELSE d[f]]

\* the nutrition statistics the last answer carries
NutritionStatsAnswered ==
    IF last.route = "overview" THEN last.body.nutritionStats ELSE last.body

\* C22: when the user holds, inside the requested window, a nutrition record
\* stored without protein, carbohydrates or fat, GET /nutrition/stats and
\* GET /dashboard/overview succeed and count the omitted fields as 0, after
\* any sequence of creates, updates and deletes.
C22_OmittedFieldsCountAsZero ==
    ((Sent("stats", "nutrition") \/ Sent("overview", "dashboard"))
     /\ \E d \in InWindow("nutrition") :
           d.protein = PyNone \/ d.carbohydrates = PyNone \/ d.fat = PyNone)
    => /\ last.status = 200
       /\ \E order \in OrderedDescending(InWindow("nutrition"), "recordedAt") :
             NutritionStatsAnswered =
                calculate_nutrition_stats(
                    [i \in DOMAIN order |-> OmittedAsZero(order[i])]).value

-----------------------------------------------------------------------------
\* the workout a POST /workouts stored
StoredWorkout == CHOOSE d \in db["workouts"] : d.id = last.body.id

\* C24: create_workout estimates caloriesBurned with calculate_calories_burned
\* only when the client provided no value; a provided caloriesBurned (0
\* included) is the value the stored workout carries.
C24_ProvidedCaloriesStored ==
    (Sent("create", "workouts") /\ last.status = 201) =>
        /\ last.body \in db["workouts"]
        /\ last.request.calories_burned # PyNone =>
              StoredWorkout.caloriesBurned = last.request.calories_burned
        /\ last.request.calories_burned = PyNone =>
              StoredWorkout.caloriesBurned =
                 calculate_calories_burned(
                    last.request.workout_type.v, last.request.duration.v \div 60,
                    ProfileField(get_user_by_id(last.before, last.user_id), "weight",
                                 PyInt(70)))


-----------------------------------------------------------------------------
\* the document of a container with the id the last request names, in `store`
Named(store) ==
    {d \in store[last.container] : d.id = PyStr(last.request.id)}

\* the last request names a record that exists and belongs to another user
ForeignRecord ==
    /\ last # <<>> /\ last.route \in {"get", "update", "delete"}
    /\ \E d \in Named(last.before) : d.userId # PyStr(last.user_id)

\* the store without the records of the other users
OwnRecords(store, user_id) ==
    [c \in DOMAIN store |->
        IF c = "users" THEN store[c]
        ELSE {d \in store[c] : d.userId = PyStr(user_id)}]

\* C26: records are isolated per user.  A get, update or delete by id of a
\* record that belongs to another user answers 404 and leaves every stored
\* record as it was; the list, stats and overview answers of a user hold only
\* that user's records and are the answers the store would give if it held
\* no record of anyone else.
C26_Isolation ==
    /\ ForeignRecord => last.status = 404 /\ db = last.before
    /\ (last # <<>> /\ last.route = "list") =>
          /\ \A i \in DOMAIN last.body.items :
                last.body.items[i].userId = PyStr(last.user_id)
          /\ last.body.total =
                Cardinality({d \in last.before[last.container] :
                                d.userId = PyStr(last.user_id)})
    /\ (last # <<>> /\ last.route = "stats") =>
          \E own \in get_stats(OwnRecords(last.before, last.user_id), last.container,
                               last.user_id, last.request.days, PyNone, last.now) :
             own.status = last.status /\ own.body = last.body
    /\ (last # <<>> /\ last.route = "overview") =>
          \E own \in get_dashboard_overview(OwnRecords(last.before, last.user_id),
                                            last.user_id, last.request.days, last.now) :
             own.status = last.status /\ own.body = last.body

\* user u2 asks to update a workout of user u1 and is answered 404
C26_Witness ==
    /\ Sent("update", "workouts") /\ ForeignRecord
    /\ last.user_id = <<"u", "2">>
    /\ last.request.update.distance = PyFloat(5125)
    /\ last.status = 404

-----------------------------------------------------------------------------
\* the record an update request names, before and after it
Old == CHOOSE d \in Named(last.before) : d.userId = PyStr(last.user_id)

New == CHOOSE d \in Named(db) : d.userId = PyStr(last.user_id)

\* the document keys the last update request supplies with a value
SuppliedKeys ==
    LET fields == UpdateFields(last.container)
    IN  {key \in DOMAIN fields : last.request.update[fields[key]] # PyNone}

\* the height in the profile of the user of the last request
HeightOfUser == ProfileField(get_user_by_id(last.before, last.user_id), "height", PyNone)

\* the last update recomputes bmi: a body-metric update that supplies weight,
\* by a user with a height
RecomputesBmi ==
    /\ last.container = "body_metrics"
    /\ last.request.update.weight # PyNone
    /\ Truthy(HeightOfUser)

\* C28: an update changes only the fields it supplies with a non-null value,
\* updatedAt, and bmi when a body-metric update supplies weight and the user
\* has a height; id, userId, createdAt and every field not supplied keep their
\* values, no other record changes, and an update answered 404 changes
\* nothing.
C28_Frame ==
    (last # <<>> /\ last.route = "update") =>
        /\ last.status \in {200, 404}
        /\ last.status = 404 => db = last.before
        /\ last.status = 200 =>
              /\ DOMAIN New = DOMAIN Old
              /\ \A f \in DOMAIN Old :
                    CASE f \in SuppliedKeys ->
                            New[f] = IsoIfDatetime(
                                        last.request.update[UpdateFields(last.container)[f]])
                      [] f = "updatedAt" -> New[f] = PyStr(isoformat(last.now))
                      [] f = "bmi" /\ RecomputesBmi ->
                            New[f] = calculate_bmi(last.request.update.weight, HeightOfUser)
                      [] OTHER -> New[f] = Old[f]
              /\ \A c \in DOMAIN db :
                    db[c] \ {New} = last.before[c] \ {Old}
              /\ last.body = New

\* user u1 (175 cm) sets the weight of a body metric to 72.5: weight, bmi
\* (23.7) and updatedAt change, recordedAt and createdAt stay
C28_Witness ==
    /\ Sent("update", "body_metrics") /\ last.status = 200
    /\ last.request.update.weight = PyFloat(72500)
    /\ Old.weight = PyFloat(70000) /\ New.weight = PyFloat(72500)
    /\ Old.bmi = PyFloat(22900) /\ New.bmi = PyFloat(23700)
    /\ New.updatedAt # Old.updatedAt
    /\ New.recordedAt = Old.recordedAt /\ New.createdAt = Old.createdAt


-----------------------------------------------------------------------------
\* the statistics of all the records of a container in the window of the last
\* request, in every order the store may return them
StatsOfWindow(container) ==
    {StatsOf(container, order) :
        order \in OrderedDescending(InWindow(container), DateField(container))}

\* `body` is what the statistics function returns on all those records
OverWholeWindow(container, body) ==
    \E stats \in StatsOfWindow(container) : ~stats.raised /\ stats.value = body

\* C23: a stats request that succeeds computes its statistics over all the
\* records of the user dated in the requested period, however many there are:
\* GET /workouts/stats, /body-metrics/stats and /nutrition/stats, and each
\* part of GET /dashboard/overview.
C23_WholeWindow ==
    /\ (last # <<>> /\ last.route = "stats" /\ last.status = 200) =>
          OverWholeWindow(last.container, last.body)
    /\ (last # <<>> /\ last.route = "overview" /\ last.status = 200) =>
          /\ OverWholeWindow("workouts", last.body.workoutStats)
          /\ OverWholeWindow("body_metrics", last.body.bodyMetrics)
          /\ OverWholeWindow("nutrition", last.body.nutritionStats)


-----------------------------------------------------------------------------
(* Two requests for the same stored record that run at the same time.      *)
(* The handlers are written without a lock and replace_item is called      *)
(* without an etag, so between two calls a handler makes to the store the  *)
(* store may serve the calls of another handler, which runs in another     *)
(* worker or another instance of the application.  Every single call to    *)
(* the store is one step; the profile read of update_body_metric is taken  *)
(* together with the existence check before it, since no request writes    *)
(* the users container.                                                    *)

Clients == {"a", "b"}

\* the user whose records are raced for
Racer == <<"u", "1">>

\* the store the requests find: one record of each kind, created by the
\* POST handlers
RaceStore ==
    LET empty == [users |-> UserDocuments, body_metrics |-> {}, workouts |-> {},
                  nutrition |-> {}, progress_photos |-> {}]
        workout == CHOOSE w \in WorkoutCreates({Recently}) :
                      w.calories_burned = PyInt(250)
        metric == CHOOSE m \in BodyMetricCreates({Recently}) :
                      m.weight = PyFloat(70000)
        nutrition == CHOOSE n \in NutritionCreates({Recently}) :
                      n.protein = PyFloat(30250)
        one == create_workout(empty, Epoch, uuid4(1), Racer, workout).store
        two == create_body_metric(one, Epoch, uuid4(2), Racer, metric).store
    IN  create_nutrition(two, Epoch, uuid4(3), Racer, nutrition).store

\* the id of the record of each kind in RaceStore
RaceId(container) ==
    CASE container = "workouts" -> uuid4(1)
      [] container = "body_metrics" -> uuid4(2)
      [] container = "nutrition" -> uuid4(3)

\* a client that has sent nothing yet
NoRequest ==
    [pos |-> "idle", route |-> "", container |-> "", id |-> <<>>, user_id |-> <<>>,
     update |-> <<>>, updates |-> <<>>, existing |-> <<>>, status |-> 0]

RaceInit ==
    /\ NoCall
    /\ db = RaceStore
    /\ blobs = {}
    /\ clock = 0
    /\ ids = 3
    /\ requests = [client \in Clients |-> NoRequest]
    /\ last = <<>>

\* the handler of `client` moves on
Moved(client, request) ==
    /\ requests' = [requests EXCEPT ![client] = request]
    /\ UNCHANGED <<blobs, clock, ids, last>>
    /\ UNCHANGED aggregation

\* the handler of `client` answers
Done(client, status) ==
    Moved(client, [requests[client] EXCEPT !.pos = "done", !.status = status])

\* a PUT request arrives and its handler is entered
RacePut ==
    \E client \in Clients, container \in Kinds :
       \E record_update \in RecordUpdates(container) :
          /\ requests[client].pos = "idle"
          /\ Moved(client, [NoRequest EXCEPT !.pos = "entered", !.route = "update",
                                !.container = container, !.id = RaceId(container),
                                !.user_id = Racer, !.update = record_update])
          /\ UNCHANGED db

\* a DELETE request arrives and its handler is entered
RaceDelete ==
    \E client \in Clients, container \in Kinds :
       /\ requests[client].pos = "idle"
       /\ Moved(client, [NoRequest EXCEPT !.pos = "entered", !.route = "delete",
                             !.container = container, !.id = RaceId(container),
                             !.user_id = Racer])
       /\ UNCHANGED db

\* update_workout of the routes, up to the call of cosmos_db.update_workout:
\* the existence check and the updates dictionary
RouteCheck ==
    \E client \in Clients :
       LET r == requests[client]
       IN  /\ r.pos = "entered" /\ r.route = "update"
           /\ IF get_by_id(db, r.container, r.id, r.user_id) = PyNone
              THEN Done(client, 404)
              ELSE Moved(client,
                         [r EXCEPT !.pos = "checked",
                                   !.updates = Updates(db, r.container, r.user_id,
                                                       Now, r.update)])
           /\ UNCHANGED db

\* update_workout of the database: the read and existing.update(updates);
\* ValueError, which the route answers with 500, when the record is gone
ReadExisting ==
    \E client \in Clients :
       LET r == requests[client]
           existing == get_by_id(db, r.container, r.id, r.user_id)
       IN  /\ r.pos = "checked"
           /\ IF existing = PyNone
              THEN Done(client, 500)
              ELSE Moved(client, [r EXCEPT !.pos = "merged",
                                           !.existing = DictUpdate(existing, r.updates)])
           /\ UNCHANGED db

\* update_workout of the database: replace_item; CosmosResourceNotFoundError
\* is logged and raised again, which the route answers with 500
ReplaceItem ==
    \E client \in Clients :
       LET r == requests[client]
           replaced == replace_item(db, r.container, r.id, r.existing)
       IN  /\ r.pos = "merged"
           /\ IF replaced.raised
              THEN Done(client, 500) /\ UNCHANGED db
              ELSE Done(client, 200) /\ db' = replaced.store

\* delete_workout of the routes
DeleteItem ==
    \E client \in Clients :
       LET r == requests[client]
           answer == delete_record(db, r.container, r.id, r.user_id)
       IN  /\ r.pos = "entered" /\ r.route = "delete"
           /\ Done(client, answer.status)
           /\ db' = answer.store

RaceNext ==
    \/ RacePut
    \/ RaceDelete
    \/ RouteCheck
    \/ ReadExisting
    \/ ReplaceItem
    \/ DeleteItem

SpecRace == RaceInit /\ [][RaceNext]_vars

\* the update of `client` was answered with 200
Updated(client) ==
    /\ requests[client].route = "update"
    /\ requests[client].pos = "done"
    /\ requests[client].status = 200

\* the fields the update of `client` set
FieldChanges(client) == DOMAIN requests[client].updates \ {"updatedAt"}

\* the record the request of `client` is for, as stored now
StoredFor(client) ==
    get_by_id(db, requests[client].container, requests[client].id,
              requests[client].user_id)

\* C27: when two updates of the same record that set different fields have
\* both been answered with 200, the stored record has the fields of both as
\* they set them; and no update is answered with 500, whatever request for
\* the same record runs beside it.
C27_NoLostUpdate ==
    /\ \A c1, c2 \in Clients :
          (/\ c1 # c2
           /\ Updated(c1) /\ Updated(c2)
           /\ requests[c1].container = requests[c2].container
           /\ FieldChanges(c1) # {} /\ FieldChanges(c2) # {}
           /\ FieldChanges(c1) \cap FieldChanges(c2) = {}
           /\ StoredFor(c1) # PyNone) =>
             \A c \in {c1, c2} : \A key \in FieldChanges(c) :
                StoredFor(c)[key] = requests[c].updates[key]
    /\ \A client \in Clients :
          (requests[client].route = "update" /\ requests[client].pos = "done") =>
             requests[client].status \in {200, 404}


-----------------------------------------------------------------------------
(* Progress photos.  The photo and its thumbnail are blobs, the rest is a  *)
(* document in the progress_photos container.  Blob storage is taken to    *)
(* keep a blob under the name it is uploaded with until that name is       *)
(* deleted; `blobs` holds the names in use.  Each call to blob storage and *)
(* the call that writes the database may fail: a request comes with the    *)
(* set of its calls that fail.                                             *)

\* str.lower()
Lower(s) == [i \in 1..Len(s) |-> LowerChar(s[i])]

\* str.replace(old, new), old not empty
RECURSIVE StrReplace(_, _, _)
StrReplace(s, old, new) ==
    IF Len(s) < Len(old) THEN s
    ELSE IF SubSeq(s, 1, Len(old)) = old
         THEN new \o StrReplace(SubSeq(s, Len(old) + 1, Len(s)), old, new)
         ELSE <<Head(s)>> \o StrReplace(Tail(s), old, new)

\* os.path.splitext(filename)[1] of a name without directories: from the
\* last dot on, empty when there is no dot but leading ones
splitext(filename) ==
    LET dots == {i \in 1..Len(filename) :
                    filename[i] = "." /\ \E j \in 1..(i - 1) : filename[j] # "."}
    IN  IF dots = {} THEN <<>>
        ELSE SubSeq(filename, CHOOSE i \in dots : \A j \in dots : j <= i, Len(filename))

\* now.strftime("%Y%m%d%H%M%S")
Timestamp(now) ==
    Pad(now.y, 4) \o Pad(now.m, 2) \o Pad(now.d, 2)
    \o Pad(now.hh, 2) \o Pad(now.mi, 2) \o Pad(now.ss, 2)

\* {user_id}/{year}/{month}/
DateFolder(user_id, now) ==
    user_id \o <<"/">> \o Pad(now.y, 4) \o <<"/">> \o Pad(now.m, 2) \o <<"/">>

\* blob_name of upload_progress_photo
PhotoBlobName(user_id, now, unique_id, photo_type, filename) ==
    DateFolder(user_id, now) \o Timestamp(now) \o <<"_">> \o unique_id \o <<"_">>
    \o Lower(photo_type) \o splitext(filename)

\* thumbnail_blob_name of upload_progress_photo
ThumbnailBlobName(user_id, now, unique_id, photo_type) ==
    DateFolder(user_id, now) \o <<"t", "h", "u", "m", "b", "_">> \o Timestamp(now)
    \o <<"_">> \o unique_id \o <<"_">> \o Lower(photo_type) \o <<".", "j", "p", "g">>

\* thumbnail_blob of delete_progress_photo
ThumbnailToDelete(blob_name, user_id) ==
    StrReplace(blob_name, user_id \o <<"/">>,
               user_id \o <<"/", "t", "h", "u", "m", "b", "_">>)

\* blob_storage.upload_file(file, user_id, blob_name, content_type)
upload_file(storage, blob_name) == storage \cup {blob_name}

\* the URL upload_file returns for a blob
BlobUrl(blob_name) == <<"/">> \o blob_name

\* blob_storage.delete_file(blob_name)
delete_file(storage, blob_name) == storage \ {blob_name}

PhotoTypes == {<<"f", "r", "o", "n", "t">>, <<"s", "i", "d", "e">>, <<"b", "a", "c", "k">>}

\* what a photo handler answers, and the database and the blobs as it
\* leaves them
PhotoAnswer(status, body, store, storage) ==
    [status |-> status, body |-> body, store |-> store, storage |-> storage]

\* POST /progress-photos with a file that passed validate_file_type and
\* validate_file_size; file.decodable tells whether generate_thumbnail returns
\* a thumbnail
upload_progress_photo(store, storage, now, unique_id, photo_id, user_id, request, fails) ==
    LET file == request.file
        blob_name == PhotoBlobName(user_id, now, unique_id, request.photo_type,
                                   file.filename)
        thumbnail_blob_name == ThumbnailBlobName(user_id, now, unique_id,
                                                 request.photo_type)
        uploaded == upload_file(storage, blob_name)
        with_thumbnail == file.decodable /\ "thumbnail" \notin fails
        stored == IF with_thumbnail THEN upload_file(uploaded, thumbnail_blob_name)
                  ELSE uploaded
        photo_doc ==
            [id |-> PyStr(photo_id), userId |-> PyStr(user_id),
             fileName |-> PyStr(blob_name), originalFileName |-> PyStr(file.filename),
             mediaType |-> PyStr(<<"i", "m", "a", "g", "e">>),
             fileSize |-> PyInt(file.size), mimeType |-> PyStr(file.content_type),
             blobUrl |-> PyStr(BlobUrl(blob_name)),
             thumbnailUrl |-> IF with_thumbnail THEN PyStr(BlobUrl(thumbnail_blob_name))
                              ELSE PyNone,
             photoType |-> PyStr(Lower(request.photo_type)), notes |-> request.notes,
             recordedAt |-> request.recorded_at,
             uploadedAt |-> PyStr(isoformat(now)), updatedAt |-> PyStr(isoformat(now))]
    IN  IF Lower(request.photo_type) \notin PhotoTypes
        THEN PhotoAnswer(400, PyNone, store, storage)
        ELSE IF "blob" \in fails THEN PhotoAnswer(500, PyNone, store, storage)
        ELSE IF "database" \in fails THEN PhotoAnswer(500, PyNone, store, stored)
        ELSE PhotoAnswer(201, photo_doc, create(store, "progress_photos", photo_doc),
                         stored)

\* DELETE /progress-photos/{photo_id}
delete_progress_photo(store, storage, photo_id, user_id, fails) ==
    LET photo == get_by_id(store, "progress_photos", photo_id, user_id)
        blob_name == photo.fileName
        without_blob == IF Truthy(blob_name) /\ "blob" \notin fails
                        THEN delete_file(storage, blob_name.v) ELSE storage
        left == IF Truthy(blob_name) /\ "thumbnail" \notin fails
                THEN delete_file(without_blob, ThumbnailToDelete(blob_name.v, user_id))
                ELSE without_blob
        success == delete(store, "progress_photos", photo_id, user_id)
    IN  IF photo = PyNone THEN PhotoAnswer(404, PyNone, store, storage)
        ELSE IF "database" \in fails THEN PhotoAnswer(500, PyNone, store, left)
        ELSE IF ~success.value THEN PhotoAnswer(404, PyNone, store, left)
        ELSE PhotoAnswer(204, PyNone, success.store, left)

\* the calls of a photo request that may fail
Calls == {"blob", "thumbnail", "database"}

\* an image Pillow opens and one it does not
PhotoFiles ==
    {[filename |-> <<"a", ".", "p", "n", "g">>,
      content_type |-> <<"i", "m", "a", "g", "e", "/", "p", "n", "g">>,
      size |-> 2048, decodable |-> TRUE],
     [filename |-> <<"b", ".", "j", "p", "g">>,
      content_type |-> <<"i", "m", "a", "g", "e", "/", "j", "p", "e", "g">>,
      size |-> 1024, decodable |-> FALSE]}

\* the forms of POST /progress-photos: a photo type in lower case, one in
\* mixed case and one that is none
PhotoUploads ==
    {[file |-> file, photo_type |-> photo_type, notes |-> PyNone,
      recorded_at |-> PyStr(isoformat(Recently))] :
        file \in PhotoFiles,
        photo_type \in {<<"f", "r", "o", "n", "t">>, <<"S", "i", "d", "e">>,
                        <<"t", "o", "p">>}}

PhotoScope == [users |-> {<<"u", "1">>}, ids |-> 2 * MaxIds, clock |-> MaxClock]

\* the last request left the database and the blobs as it found them
PhotosLeftAlone == last # <<>> /\ last.before = db /\ last.blobs_before = blobs

\* a photo handler answers
PhotoAnswered(route, user_id, request, fails, answer) ==
    /\ db' = answer.store
    /\ blobs' = answer.storage
    /\ last' = [route |-> route, container |-> "progress_photos", user_id |-> user_id,
                request |-> request, now |-> Now, status |-> answer.status,
                body |-> answer.body, before |-> db, blobs_before |-> blobs,
                fails |-> fails]
    /\ UNCHANGED requests
    /\ UNCHANGED aggregation

\* an upload takes two uuid4() values and a second of the clock once its form
\* is validated
UploadProgressPhoto(scope) ==
    /\ ~PhotosLeftAlone
    /\ ids + 2 <= scope.ids
    /\ clock < scope.clock
    /\ \E user_id \in scope.users, request \in PhotoUploads, fails \in SUBSET Calls :
          LET answer == upload_progress_photo(db, blobs, Now, uuid4(ids + 1),
                                              uuid4(ids + 2), user_id, request, fails)
          IN  /\ PhotoAnswered("upload_photo", user_id, request, fails, answer)
              /\ ids' = IF answer.status = 400 THEN ids ELSE ids + 2
              /\ clock' = IF answer.status = 400 THEN clock ELSE clock + 1

DeleteProgressPhoto(scope) ==
    /\ ~PhotosLeftAlone
    /\ \E user_id \in scope.users, id \in KnownIds, fails \in SUBSET Calls :
          PhotoAnswered("delete_photo", user_id, [id |-> id], fails,
                        delete_progress_photo(db, blobs, id, user_id, fails))
    /\ UNCHANGED <<ids, clock>>

PhotoNext ==
    \/ UploadProgressPhoto(PhotoScope)
    \/ DeleteProgressPhoto(PhotoScope)

SpecPhotos == ApiInit /\ [][PhotoNext]_vars

\* the photo the last request asked to delete, as it was stored
DeletedPhoto ==
    get_by_id(last.before, "progress_photos", last.request.id, last.user_id)

\* C25: after a DELETE /progress-photos/{id} answered with 204 for a photo
\* uploaded with a thumbnail, blob storage holds neither the blob of the
\* photo nor the blob its thumbnail was uploaded as.
C25_NoBlobLeft ==
    (/\ last # <<>>
     /\ last.route = "delete_photo"
     /\ last.status = 204
     /\ DeletedPhoto.thumbnailUrl # PyNone) =>
        /\ DeletedPhoto.fileName.v \notin blobs
        /\ \A blob_name \in blobs : PyStr(BlobUrl(blob_name)) # DeletedPhoto.thumbnailUrl

\* C30: whatever uploads and deletes were served, and whichever of their
\* calls failed, the blob named by every progress-photo document in the
\* database is in blob storage.
C30_DocumentsHaveBlobs ==
    \A photo \in db.progress_photos : photo.fileName.v \in blobs

=============================================================================
